---- MODULE Spec2Model ----
(***************************************************************************)
(* Model of the kayak_ui context: the widget tree, the layout cache, the   *)
(* primitive extraction walk (recurse_node_tree_to_build_primitives2) and  *)
(* the update walk (update_widgets / update_widget) of src/src/context.rs. *)
(*                                                                         *)
(* Opacities are integers in ten-thousandths (0.001 = 10, 1.0 = 10000).    *)
(* Entity 0 stands for "no entity" (Option::None).                         *)
(* Arguments of log::warn!/trace!/error! diagnostics are not modelled;     *)
(* every widget entity is taken to carry a WidgetName component.           *)
(***************************************************************************)
EXTENDS Integers, Sequences, FiniteSets, TLC

\* ------------------------------------------------------------------ bounds
\* entities of an extracted scene
MaxNodes == 4
\* entities ever spawned in a run of the update walk
MaxWidgets == 3

\* --------------------------------------------------------------- constants
\* crate::render::MAX_OPACITY_LAYERS (imported at context.rs:29)
MAX_OPACITY_LAYERS == 3
\* `node.opacity < 0.001`
NearZeroOpacity == 10
\* `node.opacity < 1.0`
FullOpacity == 10000

Entities == 1..MaxNodes
None == 0
NoZ == -1

\* The node inputs a scene is built from.  has_node: the entity carries a
\* Node component (calculate_nodes has processed it); has_rect: cache.add
\* got the layout-cache lock in add_widget; opacity, z, clip: the fields of
\* the Node (z is NoZ without an explicit z_index, clip is the Clip render
\* command of its resolved styles).
Kind(has_node, has_rect, opacity, z, clip) ==
    [has_node |-> has_node, has_rect |-> has_rect, opacity |-> opacity,
     z |-> z, clip |-> clip]

Opaque          == Kind(TRUE, TRUE, 10000, NoZ, FALSE)
Translucent     == Kind(TRUE, TRUE, 5000, NoZ, FALSE)
Threshold       == Kind(TRUE, TRUE, 10, NoZ, FALSE)
Faint           == Kind(TRUE, TRUE, 5, NoZ, FALSE)
Invisible       == Kind(TRUE, TRUE, 0, NoZ, FALSE)
NoNode          == Kind(FALSE, TRUE, 10000, NoZ, FALSE)
NoRect          == Kind(TRUE, FALSE, 10000, NoZ, FALSE)
OpaqueClip      == Kind(TRUE, TRUE, 10000, NoZ, TRUE)
TranslucentClip == Kind(TRUE, TRUE, 5000, NoZ, TRUE)
OpaqueZ         == Kind(TRUE, TRUE, 10000, 2, FALSE)
OpaqueZ0        == Kind(TRUE, TRUE, 10000, 0, FALSE)
TranslucentZ    == Kind(TRUE, TRUE, 5000, 2, FALSE)

\* A scene draws its nodes from one of these families.
Scenes == {
    {Opaque, Translucent, NoNode, NoRect},
    {Opaque, Invisible, Faint, Threshold},
    {Opaque, Translucent, OpaqueClip, TranslucentClip},
    {Opaque, OpaqueZ, OpaqueZ0, TranslucentZ} }

VARIABLES
    tree,             \* KayakRootContext::tree
    rect,             \* KayakRootContext::layout_cache.rect (entities that have a Rect)
    nodes,            \* the crate::node::Node component of each entity that has one
    extracted_quads,  \* calls made on ExtractedQuads by the last extraction
    pc,               \* "setup", "built" (extraction done), "tick" (update
                      \* walk running) or "panicked"
    scene,            \* the family of node inputs of this scene
    alive,            \* entities that exist in the World
    widget_name,      \* the WidgetName component of each entity that has one
    systems,          \* KayakRootContext::systems (registered type names)
    stack,            \* the active update_widgets calls, innermost last
    last,             \* what the last iteration of update_widgets did
    computed_styles,  \* the ComputedStyles component of each entity that has one
    dirty,            \* entities that carry DirtyNode
    layout_cache,     \* KayakRootContext::layout_cache (rect, geometry_changed)
    pass,             \* iterations of `for _ in 0..2` begun in this calculate_ui
    cascade,          \* what the last run of calculate_nodes did
    order_tree,       \* KayakRootContext::order_tree
    indices,          \* KayakRootContext::index (next child slot of each parent)
    unique_ids,       \* KayakRootContext::unique_ids (parent -> key -> entity)
    unique_ids_parents, \* KayakRootContext::unique_ids_parents
    widget_state,     \* KayakRootContext::widget_state (widgets that own a state entity)
    cloned_widget_entities, \* KayakRootContext::cloned_widget_entities, with
                      \* what the PreviousWidget entity of each widget holds
    kchildren,        \* the KChildren component of each entity that has one
    hierarchy,        \* the bevy Parent component of each entity that has one
    props,            \* the props component of each widget entity
    applied           \* what the last host call or diff-apply did

vars == <<tree, rect, nodes, extracted_quads, pc, scene,
          alive, widget_name, systems, stack, last,
          computed_styles, dirty, layout_cache, pass, cascade,
          order_tree, indices, unique_ids, unique_ids_parents, widget_state,
          cloned_widget_entities, kchildren, hierarchy, props, applied>>
extract_vars == <<rect, nodes, extracted_quads, scene>>
update_vars == <<alive, widget_name, systems, stack, last>>
layout_vars == <<computed_styles, dirty, layout_cache, pass, cascade>>
reconcile_vars == <<order_tree, indices, unique_ids, unique_ids_parents, widget_state,
                    cloned_widget_entities, kchildren, hierarchy, props, applied>>

\* nothing has been called or applied yet
NoCall == [op |-> "none"]

\* ------------------------------------------------------------------- Tree
EmptyTree == [root_node |-> None, children |-> <<>>, parents |-> <<>>]

TreeAdd(t, index, parent) ==
    IF parent = None
    THEN [t EXCEPT !.root_node = index]
    ELSE [t EXCEPT
            !.parents = (index :> parent) @@ @,
            !.children = IF parent \in DOMAIN @
                         THEN [@ EXCEPT ![parent] = Append(@, index)]
                         ELSE (parent :> <<index>>) @@ @]

TreeNodes(t) ==
    (IF t.root_node = None THEN {} ELSE {t.root_node}) \cup DOMAIN t.parents

ChildrenOf(t, e) == IF e \in DOMAIN t.children THEN t.children[e] ELSE <<>>

RECURSIVE IsAncestor(_, _, _)
\* a is a strict ancestor of e in t
IsAncestor(t, a, e) ==
    /\ e \in DOMAIN t.parents
    /\ \/ t.parents[e] = a
       \/ IsAncestor(t, a, t.parents[e])

\* Tree::remove: detach index and drop it and its subtree from the tree
TreeRemove(t, index) ==
    LET gone == {index} \cup {d \in DOMAIN t.parents : IsAncestor(t, index, d)}
    IN [root_node |-> IF t.root_node \in gone THEN None ELSE t.root_node,
        parents   |-> [c \in DOMAIN t.parents \ gone |-> t.parents[c]],
        children  |-> [q \in DOMAIN t.children \ gone |->
                          SelectSeq(t.children[q], LAMBDA c : c \notin gone)]]

RECURSIVE TreeRemoveAll(_, _)
TreeRemoveAll(t, set) ==
    IF set = {} THEN t
    ELSE LET x == CHOOSE y \in set : TRUE
         IN TreeRemoveAll(TreeRemove(t, x), set \ {x})

Range(seq) == {seq[i] : i \in 1..Len(seq)}

\* Tree::diff_children followed by Tree::merge for the children a render
\* produced: children that are gone are dropped with their subtrees,
\* new ones are attached to entity, the child order is the rendered one
TreeMergeChildren(t, entity, new_children) ==
    LET old == ChildrenOf(t, entity)
        t1  == TreeRemoveAll(t, Range(old) \ Range(new_children))
    IN IF new_children = old THEN t
       ELSE [t1 EXCEPT
               !.children = (entity :> new_children) @@ @,
               !.parents  = [c \in Range(new_children) \ Range(old) |-> entity] @@ @]

RECURSIVE DownFrom(_, _), DownAll(_, _, _)
\* Tree::down_iter: the nodes of the tree in pre-order, the root first
DownFrom(t, e) == <<e>> \o DownAll(t, ChildrenOf(t, e), 1)
DownAll(t, cs, i) ==
    IF i > Len(cs) THEN <<>> ELSE DownFrom(t, cs[i]) \o DownAll(t, cs, i + 1)
DownIter(t) == IF t.root_node = None THEN <<>> ELSE DownFrom(t, t.root_node)

\* ------------------------------------------------------- extraction events
NoClip == [entity |-> None, opacity_layer |-> 0]

Ev(op, e, src, quad_type, layer, z, opacity, clip, total) ==
    [op |-> op, entity |-> e, src |-> src, quad_type |-> quad_type,
     opacity_layer |-> layer, z |-> z, opacity |-> opacity, clip |-> clip,
     total |-> total]

\* entry to / return from recurse_node_tree_to_build_primitives2 for node e
EvCall(e, layer, total, clip) == Ev("call", e, "", "", layer, NoZ, 0, clip, total)
EvReturn(e, total, clip)      == Ev("return", e, "", "", 0, NoZ, 0, clip, total)
\* ExtractedQuads::new_layer / pop_stack / push, made while extracting node e
EvNewLayer(e, z)              == Ev("new_layer", e, "", "", 0, z, 0, NoClip, 0)
EvPopStack(e)                 == Ev("pop_stack", e, "", "", 0, NoZ, 0, NoClip, 0)
EvPush(e, src, quad_type, layer, opacity, clip) ==
    Ev("push", e, src, quad_type, layer, NoZ, opacity, clip, 0)

Emit(s, ev) == [s EXCEPT !.quads = Append(@, ev)]

\* ------------------------------------ recurse_node_tree_to_build_primitives2
IsInvisible_OnlyZero(node) == node.opacity <= 0

\* `if node.opacity < 0.001`
IsInvisible(node) == node.opacity < NearZeroOpacity

HasLayout_DefaultRect(e) == TRUE

\* `layout_cache.rect.get_mut(&current_node)` is Some
HasLayout(e) == e \in rect

\* `if node.opacity < 1.0`
IsTranslucent(node) == node.opacity < FullOpacity

\* `if total_opacity_layers + 1 >= MAX_OPACITY_LAYERS`
LayerCapacityReached(total_opacity_layers) ==
    total_opacity_layers + 1 >= MAX_OPACITY_LAYERS

\* `if node.z > 0.0 { Some(node.z) } else { None }`
LayerZ(node) == IF node.z > 0 THEN node.z ELSE NoZ

\* ComputedStyles::extract: pushes the node's own primitive, tagged with the
\* opacity layer and the clip it was handed, and returns the node's clip
\* quad when the node clips its content.
StylesExtract(s, e, node, current_opacity_layer) ==
    [s |-> Emit(s, EvPush(e, "extract", IF node.clip THEN "Clip" ELSE "Quad",
                          current_opacity_layer, 0, s.prev_clip)),
     new_clip |-> IF node.clip
                  THEN [entity |-> e, opacity_layer |-> current_opacity_layer]
                  ELSE NoClip]

\* `*prev_clip = match &new_clip { Some(c) => Some(c), None => prev_clip }`
ClipForSubtree(new_clip, prev_clip) ==
    IF new_clip # NoClip THEN new_clip ELSE prev_clip

\* `*prev_clip = parent_clip.clone()` after the children loop
ClipOnExit(parent_clip) == parent_clip

\* `if let (Some(parent_clip), Some(prev_clip)) = (&parent_clip, &prev_clip)`
ResetClipBetweenChildren(s, e, parent_clip) ==
    IF parent_clip # NoClip /\ s.prev_clip # NoClip
    THEN Emit(s, EvPush(e, "reset", "Clip", parent_clip.opacity_layer, 0, parent_clip))
    ELSE s

\* every early `return total_opacity_layers` and the final one
Return(s, e, total_opacity_layers) ==
    [quads |-> Append(s.quads, EvReturn(e, total_opacity_layers, s.prev_clip)),
     prev_clip |-> s.prev_clip,
     total |-> total_opacity_layers]

OpenOpacityLayer_ParentLayer(s, e, total_opacity_layers) ==
    Emit(Emit(s, EvNewLayer(e, NoZ)),
         EvPush(e, "opacity", "OpacityLayer", total_opacity_layers, 0, NoClip))

\* the opacity-layer block: allocate the layer and push its marker quad
OpenOpacityLayer(s, e, total_opacity_layers) ==
    Emit(Emit(s, EvNewLayer(e, NoZ)),
         EvPush(e, "opacity", "OpacityLayer", total_opacity_layers + 1, 0, NoClip))

DrawOpacityLayer_BeforeChildren(s, e, node, opacity_layer) ==
    [s EXCEPT !.quads =
        <<EvNewLayer(e, LayerZ(node)),
          EvPush(e, "draw", "DrawOpacityLayer", opacity_layer, node.opacity, NoClip),
          EvPopStack(e)>> \o @]

\* the closing block: draw the layer's render target
DrawOpacityLayer(s, e, node, opacity_layer) ==
    Emit(Emit(Emit(s, EvNewLayer(e, LayerZ(node))),
              EvPush(e, "draw", "DrawOpacityLayer", opacity_layer, node.opacity, NoClip)),
         EvPopStack(e))

RECURSIVE recurse_node_tree_to_build_primitives2(_, _, _, _)
RECURSIVE RecurseChildren(_, _, _, _, _, _, _)

\* `for child in children.iter() { ... }`
RecurseChildren(e, children, i, s, parent_clip, current_opacity_layer, total_opacity_layers) ==
    IF i > Len(children)
    THEN [s |-> s, total |-> total_opacity_layers]
    ELSE LET r  == recurse_node_tree_to_build_primitives2(
                       children[i], Emit(s, EvNewLayer(e, NoZ)),
                       current_opacity_layer, total_opacity_layers)
             s1 == [quads |-> r.quads, prev_clip |-> r.prev_clip]
             s2 == Emit(Emit(s1, EvPopStack(e)), EvNewLayer(e, NoZ))
             s3 == Emit(ResetClipBetweenChildren(s2, e, parent_clip), EvPopStack(e))
         IN RecurseChildren(e, children, i + 1, s3, parent_clip,
                            current_opacity_layer, r.total)

recurse_node_tree_to_build_primitives2(current_node, s_in, current_opacity_layer, total_opacity_layers) ==
    LET e  == current_node
        s0 == Emit(s_in, EvCall(e, current_opacity_layer, total_opacity_layers,
                                s_in.prev_clip))
    IN
    IF e \notin DOMAIN nodes THEN Return(s0, e, total_opacity_layers)
    ELSE LET node == nodes[e] IN
    IF IsInvisible(node) THEN Return(s0, e, total_opacity_layers)
    ELSE IF ~HasLayout(e) THEN Return(s0, e, total_opacity_layers)
    ELSE LET x == StylesExtract(s0, e, node, current_opacity_layer) IN
    IF IsTranslucent(node) /\ LayerCapacityReached(total_opacity_layers)
    THEN Return(x.s, e, total_opacity_layers)
    ELSE
    LET layered == IsTranslucent(node)
        total1  == IF layered THEN total_opacity_layers + 1
                   ELSE total_opacity_layers
        col1    == IF layered THEN total1 ELSE current_opacity_layer
        s1      == IF layered THEN OpenOpacityLayer(x.s, e, total_opacity_layers)
                   ELSE x.s
        parent_clip == ClipForSubtree(x.new_clip, s1.prev_clip)
        s2      == [s1 EXCEPT !.prev_clip = parent_clip]
        kids    == IF e \in DOMAIN tree.children
                   THEN LET k == RecurseChildren(
                                     e, tree.children[e], 1,
                                     Emit(s2, EvNewLayer(e, LayerZ(node))),
                                     parent_clip, col1, total1)
                        IN [s |-> Emit(k.s, EvPopStack(e)), total |-> k.total]
                   ELSE [s |-> s2, total |-> total1]
        s3      == [kids.s EXCEPT !.prev_clip = ClipOnExit(parent_clip)]
        s4      == IF layered THEN DrawOpacityLayer(s3, e, node, total1) ELSE s3
    IN Return(s4, e, kids.total)

\* KayakRootContext::build_render_primitives (the tree and layout-cache locks
\* are free: the extraction runs between ticks)
BuildRenderPrimitives ==
    IF tree.root_node = None
    THEN <<>>
    ELSE recurse_node_tree_to_build_primitives2(
             tree.root_node, [quads |-> <<>>, prev_clip |-> NoClip], 0, 0).quads

\* ------------------------------------------------------- the update walk
Widgets == 1..MaxWidgets
\* the ids of the scenes that branch most (ids handed out in any order, or
\* a lock that another holder can have): one widget fewer
FewWidgets == 1..(MaxWidgets - 1)
TypeNames == {"A", "B"}
NoName == ""

\* one active call update_widgets(widgets): the list it iterates, the
\* position of the iteration, the node whose visit made the call (None for
\* the call of update_widgets_sys) and whether that node's update predicate
\* had returned "unchanged"
Frame(widgets, via, via_unchanged) ==
    [widgets |-> widgets, i |-> 1, via |-> via, via_unchanged |-> via_unchanged]

NoVisit ==
    [entity |-> None, ran_update |-> FALSE, rerender |-> FALSE,
     ran_render |-> FALSE, merged |-> FALSE, via |-> None,
     via_unchanged |-> FALSE, panicked |-> FALSE,
     lock_failed |-> FALSE, guards |-> <<>>]

Top == stack[Len(stack)]
CurrentEntity == Top.widgets[Top.i]

RECURSIVE Unwind(_)
\* return from every update_widgets call whose loop is finished
Unwind(st) ==
    IF st # <<>> /\ st[Len(st)].i > Len(st[Len(st)].widgets)
    THEN Unwind(SubSeq(st, 1, Len(st) - 1))
    ELSE st

\* `for entity in widgets.iter()`: the current call moves to its next entity
Advance(st) == [st EXCEPT ![Len(st)].i = @ + 1]

Descend_OnlyIfChanged(st, t, entity, unchanged) ==
    IF unchanged THEN Advance(st)
    ELSE Append(Advance(st), Frame(ChildrenOf(t, entity), entity, unchanged))

Descend_AllDescendants(st, t, entity, unchanged) ==
    Append(Advance(st), Frame(DownAll(t, ChildrenOf(t, entity), 1), entity, unchanged))

\* the recursive call `update_widgets(.., children, ..)` at the end of a
\* visit of entity, made whatever update and render returned
Descend(st, t, entity, unchanged) ==
    Append(Advance(st), Frame(ChildrenOf(t, entity), entity, unchanged))

LookupFails_Skipped(widget_type) == FALSE

\* `systems.get_mut(&widget_type)` is None: update_widget panics
LookupFails(widget_type) == widget_type \notin systems

\* `if should_update_children { if let Ok(mut tree) = tree.write() { .. } }`
ShouldMerge(should_rerender, should_update_children) ==
    should_rerender /\ should_update_children

\* entities a render can spawn: not in the World, the tree or a pending list
Fresh ==
    {w \in Widgets :
        /\ w \notin alive
        /\ w \notin TreeNodes(tree)
        /\ \A k \in 1..Len(stack) : w \notin Range(stack[k].widgets)}

\* what a render function can leave as the children of entity: the same
\* list, the list without its first child, or the list with a new child
RenderResults(entity) ==
    LET cs == ChildrenOf(tree, entity) IN
    {[children |-> cs, new |-> None, new_name |-> NoName]}
    \cup (IF cs # <<>> THEN {[children |-> Tail(cs), new |-> None, new_name |-> NoName]}
          ELSE {})
    \cup (IF Fresh # {}
          THEN LET f == CHOOSE w \in Fresh : \A v \in Fresh : w <= v
               IN {[children |-> Append(cs, f), new |-> f, new_name |-> nm] :
                       nm \in TypeNames \cup {NoName}}
          ELSE {})

\* ---------------------------------------------- guards held during a visit
\* what one iteration of update_widgets does with the RwLocks of the
\* context, in program order: a guard is acquired, a guard is dropped, or a
\* widget system is run; step names the part of the iteration
\* `lock.read()` / `lock.write()`: the request waits for the lock
Acquire(lock, mode, step) ==
    [op |-> "acquire", lock |-> lock, mode |-> mode, step |-> step, try |-> FALSE]
\* `lock.try_read()` / `lock.try_write()`: the request never waits
TryAcquire(lock, mode, step) ==
    [op |-> "acquire", lock |-> lock, mode |-> mode, step |-> step, try |-> TRUE]
Release(lock, step)       == [op |-> "release", lock |-> lock, mode |-> "", step |-> step]
RunSystem(system, step)   == [op |-> "run", lock |-> system, mode |-> "", step |-> step]

update_widget_guards_HeldOverUpdate(should_rerender) ==
    <<TryAcquire("tree", "read", "update"),
      RunSystem("update", "update"),
      Release("tree", "update")>>
    \o (IF should_rerender
        THEN <<TryAcquire("tree", "read", "render"), Release("tree", "render"),
               RunSystem("render", "render")>>
        ELSE <<>>)

\* update_widget: the guard of `tree.try_read()` for old_parent_entity is
\* dropped at the end of its `if let`, then the update system runs; on a
\* re-render the guard taken for the trace! line is dropped before the
\* render system runs
update_widget_guards(should_rerender) ==
    <<TryAcquire("tree", "read", "update"), Release("tree", "update"),
      RunSystem("update", "update")>>
    \o (IF should_rerender
        THEN <<TryAcquire("tree", "read", "render"), Release("tree", "render"),
               RunSystem("render", "render")>>
        ELSE <<>>)

diff_apply_guards_CacheFirst(inserted, deleted) ==
    (IF inserted
     THEN <<TryAcquire("layout_cache", "write", "diff_apply")>>
     ELSE <<>>)
    \o <<Acquire("tree", "write", "diff_apply")>>
    \o (IF inserted
        THEN <<Release("layout_cache", "diff_apply")>>
        ELSE <<>>)
    \o (IF deleted
        THEN <<TryAcquire("order_tree", "read", "diff_apply"),
               Release("order_tree", "diff_apply"),
               TryAcquire("order_tree", "write", "diff_apply"),
               Release("order_tree", "diff_apply")>>
        ELSE <<>>)
    \o <<Release("tree", "diff_apply")>>

\* `if let Ok(mut tree) = tree.write() { diff, cache.add, despawn, merge,
\* mark dirty }`: `layout_cache.try_write()` for an inserted child; for a
\* deleted one `order_tree.try_read()` for the search of a holder, dropped
\* before `order_tree.try_write()` for the removal
diff_apply_guards(inserted, deleted) ==
    <<Acquire("tree", "write", "diff_apply")>>
    \o (IF inserted
        THEN <<TryAcquire("layout_cache", "write", "diff_apply"),
               Release("layout_cache", "diff_apply")>>
        ELSE <<>>)
    \o (IF deleted
        THEN <<TryAcquire("order_tree", "read", "diff_apply"),
               Release("order_tree", "diff_apply"),
               TryAcquire("order_tree", "write", "diff_apply"),
               Release("order_tree", "diff_apply")>>
        ELSE <<>>)
    \o <<Release("tree", "diff_apply")>>

\* `let children = if let Ok(tree) = tree.read() { .. }` before the
\* recursive call
child_iter_guards ==
    <<Acquire("tree", "read", "descend"), Release("tree", "descend")>>

\* the branch of an entity that no longer exists: the KChildren search
\* under read guards, then the removal under write guards
remove_dangling_guards ==
    <<Acquire("tree", "read", "remove_dangling"),
      TryAcquire("order_tree", "read", "remove_dangling"),
      Release("order_tree", "remove_dangling"),
      Release("tree", "remove_dangling"),
      Acquire("tree", "write", "remove_dangling"),
      TryAcquire("order_tree", "write", "remove_dangling"),
      Release("order_tree", "remove_dangling"),
      Release("tree", "remove_dangling")>>

\* `if let Ok(tree) = context.tree.read() { .. } else { panic!(..) }`
TreeReadPanics(acquired) == ~acquired

Visit(entity, ran_update, rerender, ran_render, merged, panicked) ==
    [entity |-> entity, ran_update |-> ran_update, rerender |-> rerender,
     ran_render |-> ran_render, merged |-> merged, via |-> Top.via,
     via_unchanged |-> Top.via_unchanged, panicked |-> panicked,
     lock_failed |-> FALSE, guards |-> <<>>]

WithGuards(visit, guards) == [visit EXCEPT !.guards = guards]

\* ---------------------------------------------------------------- actions
Init ==
    /\ tree = EmptyTree
    /\ rect = {}
    /\ nodes = <<>>
    /\ extracted_quads = <<>>
    /\ pc = "setup"
    /\ scene \in Scenes
    /\ alive = {}
    /\ widget_name = <<>>
    /\ systems = {}
    /\ stack = <<>>
    /\ last = NoVisit
    /\ computed_styles = <<>>
    /\ dirty = {}
    /\ layout_cache = [rect |-> <<>>, geometry_changed |-> {}]
    /\ pass = 0
    /\ cascade = <<>>
    /\ order_tree = EmptyTree
    /\ indices = <<>>
    /\ unique_ids = <<>>
    /\ unique_ids_parents = <<>>
    /\ widget_state = {}
    /\ cloned_widget_entities = <<>>
    /\ kchildren = <<>>
    /\ hierarchy = <<>>
    /\ props = <<>>
    /\ applied = NoCall

\* the Node component calculate_nodes builds for an entity
NodeOf(kind) == [opacity |-> kind.opacity, z |-> kind.z, clip |-> kind.clip]

\* KayakRootContext::add_widget(parent, entity); the entity comes with the
\* components of its kind
add_widget(parent, entity, kind) ==
    /\ pc = "setup"
    /\ tree' = TreeAdd(tree, entity, parent)
    /\ rect' = IF kind.has_rect THEN rect \cup {entity} ELSE rect
    /\ nodes' = IF kind.has_node THEN (entity :> NodeOf(kind)) @@ nodes ELSE nodes
    /\ UNCHANGED <<extracted_quads, pc, scene>>

AddWidget ==
    \E entity \in Entities, kind \in scene :
        /\ entity = Cardinality(TreeNodes(tree)) + 1
        /\ \E parent \in (IF tree.root_node = None THEN {None} ELSE TreeNodes(tree)) :
              add_widget(parent, entity, kind)
        /\ UNCHANGED update_vars
        /\ UNCHANGED layout_vars
        /\ UNCHANGED reconcile_vars

build_render_primitives ==
    /\ pc = "setup"
    /\ extracted_quads' = BuildRenderPrimitives
    /\ pc' = "built"
    /\ UNCHANGED <<tree, rect, nodes, scene>>
    /\ UNCHANGED update_vars
    /\ UNCHANGED layout_vars
    /\ UNCHANGED reconcile_vars

Next == AddWidget \/ build_render_primitives

Spec == Init /\ [][Next]_vars

\* ------------------------------------------------ actions of the update walk
UpdateInit ==
    /\ tree = EmptyTree
    /\ rect = {}
    /\ nodes = <<>>
    /\ extracted_quads = <<>>
    /\ pc = "setup"
    /\ scene = {Opaque}
    /\ alive = {}
    /\ widget_name = <<>>
    /\ systems = {}
    /\ stack = <<>>
    /\ last = NoVisit
    /\ computed_styles = <<>>
    /\ dirty = {}
    /\ layout_cache = [rect |-> <<>>, geometry_changed |-> {}]
    /\ pass = 0
    /\ cascade = <<>>
    /\ order_tree = EmptyTree
    /\ indices = <<>>
    /\ unique_ids = <<>>
    /\ unique_ids_parents = <<>>
    /\ widget_state = {}
    /\ cloned_widget_entities = <<>>
    /\ kchildren = <<>>
    /\ hierarchy = <<>>
    /\ props = <<>>
    /\ applied = NoCall

\* KayakRootContext::add_widget_system(type_name, update, render)
add_widget_system(type_name) ==
    /\ pc = "setup"
    /\ systems' = systems \cup {type_name}
    /\ UNCHANGED <<tree, pc, alive, widget_name, stack, last>>
    /\ UNCHANGED extract_vars
    /\ UNCHANGED layout_vars
    /\ UNCHANGED reconcile_vars

\* the widget type the host registers its systems for; widgets of the other
\* type of TypeNames have no systems when update_widget looks them up
RegisteredType == "A"

AddWidgetSystem == add_widget_system(RegisteredType)

\* the host spawns a widget entity, with or without a WidgetName, and adds
\* it to the tree with add_widget
SpawnWidget ==
    \E name \in TypeNames \cup {NoName} :
    \E parent \in (IF tree.root_node = None THEN {None} ELSE TreeNodes(tree)) :
        /\ Fresh # {}
        /\ LET entity == CHOOSE w \in Fresh : \A v \in Fresh : w <= v IN
            /\ add_widget(parent, entity, Opaque)
            /\ alive' = alive \cup {entity}
            /\ widget_name' = IF name = NoName THEN widget_name
                              ELSE (entity :> name) @@ widget_name
        /\ UNCHANGED <<systems, stack, last>>
        /\ UNCHANGED layout_vars
        /\ UNCHANGED reconcile_vars

\* update_widgets_sys up to its call of update_widgets
StartTick ==
    /\ pc \in {"setup", "build"}
    /\ \E acquired \in BOOLEAN :
        IF TreeReadPanics(acquired)
        THEN /\ pc' = "panicked"
             /\ last' = [NoVisit EXCEPT !.lock_failed = TRUE, !.panicked = TRUE]
             /\ stack' = stack
        ELSE /\ pc' = "tick"
             /\ stack' = Unwind(<<Frame(DownIter(tree), None, FALSE)>>)
             /\ last' = NoVisit
    /\ UNCHANGED <<tree, alive, widget_name, systems>>
    /\ UNCHANGED extract_vars
    /\ UNCHANGED layout_vars
    /\ UNCHANGED reconcile_vars

\* update_widgets_sys after update_widgets has returned: `context.index.clear()`
EndTick ==
    /\ pc = "tick"
    /\ stack = <<>>
    /\ pc' = "setup"
    /\ last' = NoVisit
    /\ UNCHANGED <<tree, alive, widget_name, systems, stack>>
    /\ UNCHANGED extract_vars
    /\ UNCHANGED layout_vars
    /\ indices' = <<>>
    /\ UNCHANGED <<order_tree, unique_ids, unique_ids_parents, widget_state,
                   cloned_widget_entities, kchildren, hierarchy, props, applied>>

\* one iteration of update_widgets whose entity no longer exists: the
\* dangling entity is removed from the tree
VisitDangling ==
    /\ pc = "tick" /\ stack # <<>>
    /\ CurrentEntity \notin alive
    /\ tree' = TreeRemove(tree, CurrentEntity)
    /\ stack' = Unwind(Advance(stack))
    /\ last' = WithGuards(Visit(CurrentEntity, FALSE, FALSE, FALSE, FALSE, FALSE),
                          remove_dangling_guards)
    /\ UNCHANGED <<pc, alive, widget_name, systems>>
    /\ UNCHANGED extract_vars
    /\ UNCHANGED layout_vars
    /\ UNCHANGED reconcile_vars

\* one iteration whose entity has no WidgetName: nothing is dispatched
VisitUnnamed ==
    /\ pc = "tick" /\ stack # <<>>
    /\ CurrentEntity \in alive
    /\ CurrentEntity \notin DOMAIN widget_name
    /\ stack' = Unwind(Advance(stack))
    /\ last' = Visit(CurrentEntity, FALSE, FALSE, FALSE, FALSE, FALSE)
    /\ UNCHANGED <<tree, pc, alive, widget_name, systems>>
    /\ UNCHANGED extract_vars
    /\ UNCHANGED layout_vars
    /\ UNCHANGED reconcile_vars

\* one iteration whose widget type has no registered systems: update_widget
\* panics at the lookup
VisitUnregistered ==
    /\ pc = "tick" /\ stack # <<>>
    /\ CurrentEntity \in alive
    /\ CurrentEntity \in DOMAIN widget_name
    /\ LookupFails(widget_name[CurrentEntity])
    /\ pc' = "panicked"
    /\ last' = Visit(CurrentEntity, FALSE, FALSE, FALSE, FALSE, TRUE)
    /\ UNCHANGED <<tree, alive, widget_name, systems, stack>>
    /\ UNCHANGED extract_vars
    /\ UNCHANGED layout_vars
    /\ UNCHANGED reconcile_vars

\* one iteration whose update system returns false: update_widget returns
\* (tree, false), nothing is merged, update_widgets recurses into the children
VisitUnchanged ==
    /\ pc = "tick" /\ stack # <<>>
    /\ CurrentEntity \in alive
    /\ CurrentEntity \in DOMAIN widget_name
    /\ ~LookupFails(widget_name[CurrentEntity])
    /\ LET merge == ShouldMerge(FALSE, FALSE) IN
        /\ tree' = IF merge THEN TreeMergeChildren(tree, CurrentEntity, <<>>) ELSE tree
        /\ stack' = Unwind(Descend(stack, tree', CurrentEntity, TRUE))
        /\ last' = WithGuards(Visit(CurrentEntity, TRUE, FALSE, FALSE, merge, FALSE),
                              update_widget_guards(FALSE) \o child_iter_guards)
    /\ UNCHANGED <<pc, alive, widget_name, systems>>
    /\ UNCHANGED extract_vars
    /\ UNCHANGED layout_vars
    /\ UNCHANGED reconcile_vars

\* one iteration whose update system returns true: the render system runs,
\* its children are diffed and merged when it returns true, deleted children
\* are despawned, and update_widgets recurses into the children
VisitRendered ==
    /\ pc = "tick" /\ stack # <<>>
    /\ CurrentEntity \in alive
    /\ CurrentEntity \in DOMAIN widget_name
    /\ ~LookupFails(widget_name[CurrentEntity])
    /\ \E should_update_children \in BOOLEAN :
       \E r \in RenderResults(CurrentEntity) :
        LET merge   == ShouldMerge(TRUE, should_update_children)
            old     == ChildrenOf(tree, CurrentEntity)
            deleted == Range(old) \ Range(r.children)
        IN
        /\ ~should_update_children => r.children = old
        /\ tree' = IF merge THEN TreeMergeChildren(tree, CurrentEntity, r.children)
                   ELSE tree
        /\ alive' = IF merge
                    THEN (alive \cup (IF r.new = None THEN {} ELSE {r.new})) \ deleted
                    ELSE alive
        /\ widget_name' =
              IF merge
              THEN LET named == IF r.new # None /\ r.new_name # NoName
                                THEN (r.new :> r.new_name) @@ widget_name
                                ELSE widget_name
                   IN [w \in DOMAIN named \ deleted |-> named[w]]
              ELSE widget_name
        /\ rect' = IF merge /\ r.new # None THEN rect \cup {r.new} ELSE rect
        /\ stack' = Unwind(Descend(stack, tree', CurrentEntity, FALSE))
        /\ last' = WithGuards(
                      Visit(CurrentEntity, TRUE, TRUE, TRUE, merge, FALSE),
                      update_widget_guards(TRUE)
                      \o (IF merge
                          THEN diff_apply_guards(r.new # None,
                                                 deleted \cap Range(old) # {})
                          ELSE <<>>)
                      \o child_iter_guards)
    /\ UNCHANGED <<pc, systems, nodes, extracted_quads, scene>>
    /\ UNCHANGED layout_vars
    /\ UNCHANGED reconcile_vars

UpdateNext ==
    \/ AddWidgetSystem
    \/ SpawnWidget
    \/ StartTick
    \/ VisitDangling
    \/ VisitUnnamed
    \/ VisitUnregistered
    \/ VisitUnchanged
    \/ VisitRendered
    \/ EndTick

UpdateSpec == UpdateInit /\ [][UpdateNext]_vars

\* ------------------------------------------------- styles (KStyle subset)
\* StyleProp::Default of a Units property
DefaultUnits == -1
\* `properties.max_size.0 = 100000.0` when word_wrap is off
UnboundedWidth == 100000
DEFAULT_FONT == "Roboto"
\* the font names FontMapping::get_handle knows, and those whose KayakFont
\* asset is loaded
FontMapping == {"Roboto", "Pending"}
LoadedFonts == {"Roboto"}

\* render_command, color and font are "Default", "Inherit" or a value;
\* width and height are DefaultUnits or pixels; word_wrap is the field of
\* RenderCommand::Text
KStyle(render_command, word_wrap, width, height, color, font) ==
    [render_command |-> render_command, word_wrap |-> word_wrap,
     width |-> width, height |-> height, color |-> color, font |-> font]

\* KStyle::new_default() and KStyle::initial()
new_default == KStyle("Default", TRUE, DefaultUnits, DefaultUnits, "Default", "Default")
initial_styles == KStyle("Layout", TRUE, DefaultUnits, DefaultUnits, "white", "Default")
\* `KStyle { opacity: StyleProp::Value(1.0), ..KStyle::new_default() }`
default_styles == new_default

\* KStyle::apply: every property still Default takes the other's value
Apply(styles, other) ==
    [styles EXCEPT
        !.render_command = IF @ = "Default" THEN other.render_command ELSE @,
        !.width  = IF @ = DefaultUnits THEN other.width ELSE @,
        !.height = IF @ = DefaultUnits THEN other.height ELSE @,
        !.color  = IF @ = "Default" THEN other.color ELSE @,
        !.font   = IF @ = "Default" THEN other.font ELSE @]

\* KStyle::inherit: every property marked Inherit takes the parent's value
Inherit(styles, parent_styles) ==
    [styles EXCEPT
        !.render_command = IF @ = "Inherit" THEN parent_styles.render_command ELSE @,
        !.color = IF @ = "Inherit" THEN parent_styles.color ELSE @]

\* `render_command.resolve()`: the value, or RenderCommand::default()
ResolveRenderCommand(styles) ==
    IF styles.render_command \in {"Default", "Inherit"} THEN "Empty"
    ELSE styles.render_command

\* `styles.width.resolve().value_or(0.0, 0.0)`
ValueOr0(units) == IF units = DefaultUnits THEN 0 ELSE units

Rect(posx, posy, width, height) ==
    [posx |-> posx, posy |-> posy, width |-> width, height |-> height]

\* KayakFont::measure: a text two units wide and one high, wrapped to the
\* width it is given
Measure(max_size) ==
    <<IF max_size[1] < 2 THEN max_size[1] ELSE 2, 1>>

\* ------------------------------------------------------ calculate_nodes
IsEmptyOrLayout_EmptyOnly(styles) ==
    ResolveRenderCommand(styles) = "Empty"

\* `matches!(.., RenderCommand::Empty) || matches!(.., RenderCommand::Layout)`
IsEmptyOrLayout(styles) ==
    ResolveRenderCommand(styles) \in {"Empty", "Layout"}

RECURSIVE find_not_empty_parent(_, _, _)
find_not_empty_parent(t, all_styles_query, node) ==
    IF node \notin DOMAIN t.parents THEN None
    ELSE LET parent == t.parents[node] IN
         IF parent \in DOMAIN all_styles_query
         THEN IF IsEmptyOrLayout(all_styles_query[parent])
              THEN find_not_empty_parent(t, all_styles_query, parent)
              ELSE parent
         ELSE find_not_empty_parent(t, all_styles_query, parent)

\* KayakRootContext::get_layout and get_geometry_changed, cache_ok telling
\* whether layout_cache.try_read() succeeds
get_layout_is_some(cache, cache_ok, id) ==
    cache_ok /\ id \in DOMAIN cache.rect

get_layout(cache, cache_ok, id) == cache.rect[id]

get_geometry_changed(cache, cache_ok, id) ==
    cache_ok /\ id \in cache.geometry_changed

\* `properties.max_size`, with the word_wrap hack
MaxSize(styles, parent_layout) ==
    <<IF styles.word_wrap THEN parent_layout.width ELSE UnboundedWidth,
      parent_layout.height>>

NeedsLayout_ZeroBoxOnly(max_size, parent_changed, parent_dirty) ==
    max_size[1] = 0 \/ max_size[2] = 0

\* the three tests that set needs_layout back to true for a measured text
NeedsLayout(max_size, parent_changed, parent_dirty) ==
    \/ max_size[1] = 0 \/ max_size[2] = 0
    \/ parent_changed
    \/ parent_dirty

\* `font_mapping.get_handle(font).unwrap()` panics
FontUnknown(font) == font \notin FontMapping

create_primitive(id, styles, cache, cache_ok) ==
    LET skip == [styles |-> styles, needs_layout |-> TRUE, text |-> FALSE,
                 measured |-> FALSE, panicked |-> FALSE, parent_id |-> None,
                 max_size |-> <<0, 0>>, measurement |-> <<0, 0>>]
    IN
    IF styles.render_command \in {"Default", "Inherit"} THEN skip
    ELSE IF styles.render_command # "Text" THEN [skip EXCEPT !.needs_layout = FALSE]
    ELSE
    LET text == [skip EXCEPT !.text = TRUE]
        font == IF styles.font \in {"Default", "Inherit"} THEN DEFAULT_FONT
                ELSE styles.font
    IN
    IF FontUnknown(font) THEN [text EXCEPT !.panicked = TRUE]
    ELSE IF font \notin LoadedFonts THEN text
    ELSE
    LET parent_id == find_not_empty_parent(tree, computed_styles, id) IN
    IF parent_id = None THEN text
    ELSE
    IF ~get_layout_is_some(cache, cache_ok, parent_id)
    THEN [text EXCEPT !.parent_id = parent_id]
    ELSE
    LET parent_layout == get_layout(cache, cache_ok, parent_id)
        max_size    == MaxSize(styles, parent_layout)
        measurement == Measure(max_size)
    IN [styles |-> [styles EXCEPT
                      !.width  = IF @ = DefaultUnits THEN measurement[1] ELSE @,
                      !.height = IF @ = DefaultUnits THEN measurement[2] ELSE @],
        needs_layout |-> NeedsLayout(max_size,
                                     get_geometry_changed(cache, cache_ok, parent_id),
                                     parent_id \in dirty),
        text |-> TRUE, measured |-> TRUE, panicked |-> FALSE,
        parent_id |-> parent_id, max_size |-> max_size,
        measurement |-> measurement]

\* `let parent_styles = ..`: the parent's style resolved in this pass, else
\* the one on its Node, else its ComputedStyles, else the default styles
ParentStyles(t, dirty_entity, new_nodes) ==
    IF dirty_entity \in DOMAIN t.parents
    THEN LET parent == t.parents[dirty_entity] IN
         IF parent \in DOMAIN new_nodes
         THEN [source |-> "new_nodes", styles |-> new_nodes[parent].node.resolved_styles]
         ELSE IF parent \in DOMAIN nodes
         THEN [source |-> "node", styles |-> nodes[parent].resolved_styles]
         ELSE IF parent \in DOMAIN computed_styles
         THEN [source |-> "styles", styles |-> computed_styles[parent]]
         ELSE [source |-> "default", styles |-> default_styles]
    ELSE [source |-> "none", styles |-> default_styles]

RECURSIVE SortedByIndex(_)
\* `dirty_entities.sort_unstable_by(|a, b| a.index().partial_cmp(&b.index()))`
SortedByIndex(set) ==
    IF set = {} THEN <<>>
    ELSE LET least == CHOOSE x \in set : \A y \in set : x <= y
         IN <<least>> \o SortedByIndex(set \ {least})

\* `cache.rect.insert(dirty_entity, Rect { posx: 0.0, posy: 0.0, width, height, .. })`
SeedRoot(cache, cache_ok, dirty_entity, styles) ==
    IF dirty_entity = tree.root_node /\ cache_ok
    THEN [cache EXCEPT !.rect = (dirty_entity :>
                 Rect(0, 0, ValueOr0(styles.width), ValueOr0(styles.height))) @@ @]
    ELSE cache

RECURSIVE CascadeDirty(_, _, _, _)
\* `for dirty_entity in dirty_entities { .. }`
CascadeDirty(dirty_entities, i, acc, cache_ok) ==
    IF i > Len(dirty_entities) \/ acc.panicked THEN acc
    ELSE
    LET dirty_entity == dirty_entities[i] IN
    IF dirty_entity \notin TreeNodes(tree)
    THEN CascadeDirty(dirty_entities, i + 1, acc, cache_ok)
    ELSE
    LET raw_styles == IF dirty_entity \in DOMAIN computed_styles
                      THEN computed_styles[dirty_entity] ELSE default_styles
        parent     == ParentStyles(tree, dirty_entity, acc.new_nodes)
        styles     == Inherit(Apply(raw_styles, initial_styles), parent.styles)
        prim       == create_primitive(dirty_entity, styles, acc.cache, cache_ok)
        node       == [resolved_styles |-> prim.styles, raw_styles |-> raw_styles]
        entry      == [entity |-> dirty_entity, source |-> parent.source,
                       parent_styles |-> parent.styles, resolved |-> prim.styles,
                       text |-> prim.text, measured |-> prim.measured,
                       parent_id |-> prim.parent_id, max_size |-> prim.max_size,
                       measurement |-> prim.measurement,
                       needs_layout |-> prim.needs_layout,
                       panicked |-> prim.panicked]
    IN CascadeDirty(dirty_entities, i + 1,
           [new_nodes |-> IF prim.panicked THEN acc.new_nodes
                          ELSE (dirty_entity :> [node |-> node,
                                                 needs_layout |-> prim.needs_layout])
                               @@ acc.new_nodes,
            cache     |-> IF prim.panicked THEN acc.cache
                          ELSE SeedRoot(acc.cache, cache_ok, dirty_entity, prim.styles),
            entries   |-> Append(acc.entries, entry),
            panicked  |-> prim.panicked],
           cache_ok)

\* the whole of calculate_nodes; tree_ok tells whether tree.try_read()
\* succeeds, cache_ok whether the layout-cache try-locks of this run do
CalculateNodes(tree_ok, cache_ok) ==
    LET idle == [new_nodes |-> <<>>, cache |-> layout_cache, entries |-> <<>>,
                 panicked |-> FALSE]
    IN IF tree_ok /\ tree.root_node # None
       THEN CascadeDirty(SortedByIndex(dirty), 1, idle, cache_ok)
       ELSE idle

\* ------------------------------------------------------ calculate_layout
RECURSIVE SolveFrom(_, _, _)
\* morphorm::layout: every node but the root gets its rectangle from its
\* own box style and its parent's rectangle; the root's is read as it is
SolveFrom(order, i, rects) ==
    IF i > Len(order) THEN rects
    ELSE
    LET e == order[i] IN
    IF e \notin DOMAIN tree.parents \/ tree.parents[e] \notin DOMAIN rects
    THEN SolveFrom(order, i + 1, rects)
    ELSE
    LET p  == rects[tree.parents[e]]
        st == IF e \in DOMAIN nodes THEN nodes[e].resolved_styles ELSE default_styles
        w  == IF st.width = DefaultUnits THEN p.width ELSE st.width
        h  == IF st.height = DefaultUnits THEN p.height ELSE st.height
    IN SolveFrom(order, i + 1, (e :> Rect(p.posx, p.posy, w, h)) @@ rects)

Solve(rects) == SolveFrom(DownIter(tree), 1, rects)

\* LayoutCache::geometry_changed after a layout: the nodes the solver gave
\* a new position or size
GeometryChanged(before, after) ==
    {e \in DOMAIN after : e \in DOMAIN tree.parents /\
        (e \notin DOMAIN before \/ before[e] # after[e])}

\* `for child in tree.child_iter(*entity) { .. insert(DirtyNode) }`
MarkedAfterLayout(changed) ==
    {c \in TreeNodes(tree) : \E e \in changed : c \in Range(ChildrenOf(tree, e))}

LoopDone_Three(n) == n >= 3

\* `for _ in 0..2`
LoopDone(n) == n >= 2

\* ------------------------------------- actions of the cascade and layout
\* what a widget entity can carry: ComputedStyles or none
LayoutKind(has_styles, styles) == [has_styles |-> has_styles, styles |-> styles]

Red          == LayoutKind(TRUE, KStyle("Quad", TRUE, DefaultUnits, DefaultUnits, "red", "Default"))
Inheriting   == LayoutKind(TRUE, KStyle("Layout", TRUE, DefaultUnits, DefaultUnits, "Inherit", "Default"))
Bare         == LayoutKind(FALSE, new_default)
Wide         == LayoutKind(TRUE, KStyle("Quad", TRUE, 4, 1, "Default", "Default"))
Panel        == LayoutKind(TRUE, KStyle("Quad", TRUE, DefaultUnits, DefaultUnits, "Default", "Default"))
ZeroBox      == LayoutKind(TRUE, KStyle("Quad", TRUE, 0, 1, "Default", "Default"))
Collapsed    == LayoutKind(TRUE, KStyle("Quad", TRUE, 0, 0, "Default", "Default"))
Label        == LayoutKind(TRUE, KStyle("Text", TRUE, DefaultUnits, DefaultUnits, "Inherit", "Default"))
LabelNoWrap  == LayoutKind(TRUE, KStyle("Text", FALSE, DefaultUnits, DefaultUnits, "Inherit", "Default"))
PendingLabel == LayoutKind(TRUE, KStyle("Text", TRUE, DefaultUnits, DefaultUnits, "Inherit", "Pending"))
Blank        == LayoutKind(TRUE, KStyle("Empty", TRUE, DefaultUnits, DefaultUnits, "Default", "Default"))
MissingLabel == LayoutKind(TRUE, KStyle("Text", TRUE, DefaultUnits, DefaultUnits, "Inherit", "Missing"))
Unresolved   == LayoutKind(TRUE, KStyle("Inherit", TRUE, DefaultUnits, DefaultUnits, "Default", "Default"))

\* A layout scene draws its widgets from one family of kinds.  In a free
\* scene entity indices are handed out in any order and a widget can be
\* added under any node; in the others the tree is a chain whose indices
\* grow from the root down.  In a scene with contention another thread may
\* hold the tree or the layout-cache lock when a system tries to take it.
LayoutScene(kinds, universe, free, contention) ==
    [kinds |-> kinds, universe |-> universe, free |-> free, contention |-> contention]

LayoutScenes == {
    LayoutScene({Red, Inheriting, Bare}, FewWidgets, TRUE, FALSE),
    LayoutScene({Wide, Panel, Collapsed}, Entities, FALSE, FALSE),
    LayoutScene({Wide, ZeroBox, Label, LabelNoWrap}, Entities, FALSE, FALSE),
    LayoutScene({Wide, PendingLabel, MissingLabel}, Entities, FALSE, FALSE),
    LayoutScene({Wide, Label}, Widgets, FALSE, TRUE),
    LayoutScene({Panel, Unresolved}, Widgets, FALSE, FALSE) }

\* the outcomes of a try_read / try_write in this scene
TryLock == IF scene.contention THEN BOOLEAN ELSE {TRUE}

LayoutInit ==
    /\ tree = EmptyTree
    /\ rect = {}
    /\ nodes = <<>>
    /\ extracted_quads = <<>>
    /\ pc = "build"
    /\ scene \in LayoutScenes
    /\ alive = {}
    /\ widget_name = <<>>
    /\ systems = {}
    /\ stack = <<>>
    /\ last = NoVisit
    /\ computed_styles = <<>>
    /\ dirty = {}
    /\ layout_cache = [rect |-> <<>>, geometry_changed |-> {}]
    /\ pass = 0
    /\ cascade = <<>>
    /\ order_tree = EmptyTree
    /\ indices = <<>>
    /\ unique_ids = <<>>
    /\ unique_ids_parents = <<>>
    /\ widget_state = {}
    /\ cloned_widget_entities = <<>>
    /\ kchildren = <<>>
    /\ hierarchy = <<>>
    /\ props = <<>>
    /\ applied = NoCall

idle_vars == <<rect, extracted_quads, scene, alive, widget_name, systems, stack, last>>

\* the host spawns a widget entity with the components of its kind and adds
\* it with add_widget (tree.add, cache.add); the first update walk mounts
\* and renders it, which leaves it with DirtyNode.  The tree is built
\* before the first calculate_ui.
SpawnStyled ==
    /\ pc = "build"
    /\ \E entity \in scene.universe \ TreeNodes(tree), kind \in scene.kinds :
        /\ scene.free \/ entity = Cardinality(TreeNodes(tree)) + 1
        /\ \E parent \in (IF tree.root_node = None THEN {None}
                          ELSE IF scene.free THEN TreeNodes(tree)
                          ELSE {entity - 1}) :
              tree' = TreeAdd(tree, entity, parent)
        /\ computed_styles' = IF kind.has_styles
                              THEN (entity :> kind.styles) @@ computed_styles
                              ELSE computed_styles
        /\ layout_cache' = [layout_cache EXCEPT
                               !.rect = (entity :> Rect(0, 0, 0, 0)) @@ @]
        /\ dirty' = dirty \cup {entity}
    /\ UNCHANGED <<nodes, pc, pass, cascade>>
    /\ UNCHANGED idle_vars
    /\ UNCHANGED reconcile_vars

\* update_widget re-rendered a widget: `commands.entity(entity.0).insert(DirtyNode)`
Rerender ==
    /\ pc = "setup"
    /\ \E entity \in TreeNodes(tree) \ dirty :
          dirty' = dirty \cup {entity}
    /\ UNCHANGED <<tree, nodes, pc, layout_cache, pass, cascade, computed_styles>>
    /\ UNCHANGED idle_vars
    /\ UNCHANGED reconcile_vars

\* one run of the calculate_nodes system, its commands applied
\* (node_system.apply_deferred); the first run of a calculate_ui begins
\* the `for _ in 0..2` loop
calculate_nodes ==
    /\ pc \in {"build", "setup", "nodes"}
    /\ \E tree_ok, cache_ok \in TryLock :
        LET run == CalculateNodes(tree_ok, cache_ok) IN
        /\ cascade' = [tree_ok |-> tree_ok, cache_ok |-> cache_ok,
                       entries |-> run.entries, dirty_before |-> dirty]
        /\ layout_cache' = run.cache
        /\ pass' = pass + 1
        /\ IF run.panicked
           THEN /\ pc' = "panicked"
                /\ UNCHANGED <<nodes, dirty>>
           ELSE /\ pc' = "layout"
                /\ nodes' = [e \in DOMAIN run.new_nodes |-> run.new_nodes[e].node] @@ nodes
                /\ dirty' = dirty \ {e \in DOMAIN run.new_nodes :
                                        ~run.new_nodes[e].needs_layout}
    /\ UNCHANGED <<tree, computed_styles>>
    /\ UNCHANGED idle_vars
    /\ UNCHANGED reconcile_vars

\* one run of the calculate_layout system, its commands applied, and the
\* end of the loop body in calculate_ui
calculate_layout ==
    /\ pc = "layout"
    /\ \E tree_ok, cache_ok \in TryLock :
        IF tree_ok /\ cache_ok
        THEN LET solved  == Solve(layout_cache.rect)
                 changed == GeometryChanged(layout_cache.rect, solved)
             IN /\ layout_cache' = [rect |-> solved, geometry_changed |-> changed]
                /\ dirty' = dirty \cup MarkedAfterLayout(changed)
        ELSE UNCHANGED <<layout_cache, dirty>>
    /\ pc' = IF LoopDone(pass) THEN "setup" ELSE "nodes"
    /\ pass' = IF LoopDone(pass) THEN 0 ELSE pass
    /\ cascade' = <<>>
    /\ UNCHANGED <<tree, nodes, computed_styles>>
    /\ UNCHANGED idle_vars
    /\ UNCHANGED reconcile_vars

LayoutNext ==
    \/ SpawnStyled
    \/ Rerender
    \/ calculate_nodes
    \/ calculate_layout

LayoutSpec == LayoutInit /\ [][LayoutNext]_vars

\* ----------------------------------------------- find_not_empty_parent
\* chains of widgets of every render kind, and of widgets without
\* ComputedStyles
FindParentScene == LayoutScene({Panel, Inheriting, Blank, Bare, Label}, Entities, FALSE, FALSE)

FindParentInit ==
    /\ tree = EmptyTree
    /\ rect = {}
    /\ nodes = <<>>
    /\ extracted_quads = <<>>
    /\ pc = "build"
    /\ scene = FindParentScene
    /\ alive = {}
    /\ widget_name = <<>>
    /\ systems = {}
    /\ stack = <<>>
    /\ last = NoVisit
    /\ computed_styles = <<>>
    /\ dirty = {}
    /\ layout_cache = [rect |-> <<>>, geometry_changed |-> {}]
    /\ pass = 0
    /\ cascade = <<>>
    /\ order_tree = EmptyTree
    /\ indices = <<>>
    /\ unique_ids = <<>>
    /\ unique_ids_parents = <<>>
    /\ widget_state = {}
    /\ cloned_widget_entities = <<>>
    /\ kchildren = <<>>
    /\ hierarchy = <<>>
    /\ props = <<>>
    /\ applied = NoCall

\* `find_not_empty_parent(&node_tree, all_styles_query, &id)` for one node
\* of the tree
CallFindNotEmptyParent ==
    /\ pc = "build"
    /\ \E node \in TreeNodes(tree) :
          cascade' = [node |-> node,
                      found |-> find_not_empty_parent(tree, computed_styles, node)]
    /\ pc' = "found"
    /\ UNCHANGED <<tree, nodes, computed_styles, dirty, layout_cache, pass>>
    /\ UNCHANGED idle_vars
    /\ UNCHANGED reconcile_vars

FindParentNext ==
    \/ SpawnStyled
    \/ CallFindNotEmptyParent

FindParentSpec == FindParentInit /\ [][FindParentNext]_vars

\* ----------------------------------------------------------- reconciliation
\* `key: Option<&str>` of spawn_widget; NoKey is Option::None
Keys == {"k"}
NoKey == ""

\* one entry of the edit script of Tree::diff_children: the child, its
\* position in the list it was found in, the diffed parent, and the change
Change(slot, entity, parent, change) ==
    [slot |-> slot, entity |-> entity, parent |-> parent, change |-> change]

SlotOf(list, e) == CHOOSE i \in 1..Len(list) : list[i] = e

\* how diff_children classifies the child at slot i of the new list: a child
\* the old list lacks is Inserted, a child of both lists is Moved when its
\* slot differs and Same otherwise
ChangeOf(old, new, i) ==
    IF new[i] \notin Range(old) THEN "Inserted"
    ELSE IF SlotOf(old, new[i]) # i THEN "Moved"
    ELSE "Same"

\* Tree::diff_children(widget_context, parent, 0): the children of the old
\* list the new list lacks are Deleted, then the new list slot by slot
Diff(parent, old, new) ==
    LET gone == SelectSeq(old, LAMBDA c : c \notin Range(new))
    IN [i \in 1..Len(gone) |-> Change(SlotOf(old, gone[i]), gone[i], parent, "Deleted")]
       \o [i \in 1..Len(new) |-> Change(i, new[i], parent, ChangeOf(old, new, i))]

\* the entities an edit script reports with the given change
Reported(changes, change) ==
    {changes[i].entity : i \in {j \in 1..Len(changes) : changes[j].change = change}}

\* Tree::parent
TreeParent(t, e) == IF e \in DOMAIN t.parents THEN t.parents[e] ELSE None

\* Tree::down_iter_at(e, include_self)
DownIterAt(t, e, include_self) ==
    IF include_self THEN DownFrom(t, e) ELSE Tail(DownFrom(t, e))

\* every entity id some part of the context or of the World still names,
\* in the working state s
Known(s) ==
    s.alive \cup TreeNodes(tree) \cup TreeNodes(s.order_tree)
    \cup DOMAIN s.order_tree.children
    \cup UNION {Range(s.kchildren[e]) : e \in DOMAIN s.kchildren}
    \cup UNION {Range(stack[k].widgets) : k \in 1..Len(stack)}
    \cup DOMAIN s.unique_ids_parents \cup DOMAIN s.cloned
    \cup s.widget_state \cup rect

\* `commands.spawn_empty().id()`: an id no part of the program holds
SpawnEmpty(s) ==
    IF scene.universe \ Known(s) = {} THEN None
    ELSE CHOOSE w \in scene.universe \ Known(s) :
            \A v \in scene.universe \ Known(s) : w <= v

Without(f, set) == [x \in DOMAIN f \ set |-> f[x]]

\* the part of the World and of the context a host call or a visit of the
\* walk works on
Working ==
    [alive |-> alive, widget_name |-> widget_name, kchildren |-> kchildren,
     props |-> props, hierarchy |-> hierarchy, dirty |-> dirty,
     order_tree |-> order_tree, indices |-> indices,
     widget_state |-> widget_state,
     cloned |-> cloned_widget_entities, unique_ids |-> unique_ids,
     unique_ids_parents |-> unique_ids_parents,
     despawn_list |-> <<>>, suppressed |-> {}, retyped |-> {}]

\* KayakRootContext::get_and_add_index: the slot handed out, and the map after
get_and_add_index(s, parent) ==
    IF parent \in DOMAIN s.indices
    THEN [index |-> s.indices[parent],
          indices |-> [s.indices EXCEPT ![parent] = @ + 1]]
    ELSE [index |-> 0, indices |-> (parent :> 1) @@ s.indices]

\* `if let Some(key_hashmap) = self.unique_ids.get(&parent_entity) { .. }
\*  else { panic!("Couldn't get unique id lock!") }`
spawn_widget_panics(s, key, parent_id) ==
    parent_id # None /\ key # NoKey /\ parent_id \notin DOMAIN s.unique_ids

\* `entity_mut.despawn()` / `world.despawn(e)`: the entity and every
\* component it carries are gone; its children are left as they are
Despawn(s, e) ==
    [s EXCEPT !.alive = @ \ {e},
              !.widget_name = Without(@, {e}),
              !.kchildren = Without(@, {e}),
              !.props = Without(@, {e}),
              !.hierarchy = Without(@, {e}),
              !.dirty = @ \ {e}]

\* KayakRootContext::spawn_widget(commands, key, parent_id) on the working
\* state s: the entity it returns and the state it leaves; order_write is
\* the outcome of `self.order_tree.try_write()`
spawn_widget(s, key, parent_id, order_write) ==
    LET keyed    == parent_id # None /\ key # NoKey
        unkeyed  == parent_id # None /\ key = NoKey
        by_key   == IF keyed /\ parent_id \in DOMAIN s.unique_ids
                       /\ key \in DOMAIN s.unique_ids[parent_id]
                    THEN s.unique_ids[parent_id][key] ELSE None
        slot     == get_and_add_index(s, parent_id)
        children == ChildrenOf(s.order_tree, parent_id)
        by_index == IF unkeyed /\ slot.index + 1 <= Len(children)
                    THEN children[slot.index + 1] ELSE None
        found    == IF keyed THEN by_key ELSE by_index
        entity   == IF found # None THEN found ELSE SpawnEmpty(s)
        created  == found = None
        old_map  == IF parent_id \in DOMAIN s.unique_ids THEN s.unique_ids[parent_id]
                    ELSE <<>>
        \* `entity_commands.despawn()` then `commands.get_or_spawn(child)`
        s1 == IF unkeyed THEN [s EXCEPT !.indices = slot.indices] ELSE s
        s2 == [Despawn(s1, entity) EXCEPT !.alive = @ \cup {entity}]
        \* `set_parent(parent_entity)`: a reused keyed child, and every
        \* created child of a parent
        s3 == IF parent_id # None /\ (created \/ keyed)
              THEN [s2 EXCEPT !.hierarchy = (entity :> parent_id) @@ @]
              ELSE s2
        s4 == IF created /\ keyed
              THEN [s3 EXCEPT
                      !.unique_ids = (parent_id :> ((key :> entity) @@ old_map)) @@ @,
                      !.unique_ids_parents = (entity :> parent_id) @@ @]
              ELSE s3
        s5 == IF created /\ unkeyed /\ order_write
              THEN [s4 EXCEPT !.order_tree = TreeAdd(@, entity, parent_id)]
              ELSE s4
    IN IF spawn_widget_panics(s, key, parent_id)
       THEN [panicked |-> TRUE, entity |-> None, created |-> FALSE,
             recorded |-> FALSE, after |-> s]
       ELSE [panicked |-> FALSE, entity |-> entity, created |-> created,
             recorded |-> by_key # None, after |-> s5]

\* KayakWidgetContext::spawn_widget, the call a render function makes: it
\* shares unique_ids and unique_ids_parents with the root context
\* (context.rs:909-910) and records the first keyed child of a parent in a
\* map it creates, as context.rs:308-313 does
widget_context_spawn_widget(s, key, parent_id, order_write) ==
    LET keyed == parent_id # None /\ key # NoKey
        at    == IF keyed /\ parent_id \notin DOMAIN s.unique_ids
                 THEN [s EXCEPT !.unique_ids = (parent_id :> <<>>) @@ @]
                 ELSE s
    IN spawn_widget(at, key, parent_id, order_write)

\* the PreviousWidget entity `world.spawn_empty().insert(PreviousWidget)`
\* creates: alive, with no component of the widget yet
NewSnapshot == [alive |-> TRUE, name |-> NoName, props |-> None, kchildren |-> <<>>,
                has_kchildren |-> FALSE]

\* the search both deletion branches make: some child of the order-tree
\* parent of changed has, in its subtree of the tree, a live entity whose
\* KChildren contains changed
HeldBySibling(s, t, changed, skipped_sibling, skipped_holder) ==
    LET order_tree_parent == TreeParent(s.order_tree, changed) IN
    /\ order_tree_parent # None
    /\ \E sibling \in Range(ChildrenOf(s.order_tree, order_tree_parent)) \ {skipped_sibling} :
       \E child \in Range(DownIterAt(t, sibling, TRUE)) \ {skipped_holder} :
          /\ child \in s.alive
          /\ child \in DOMAIN s.kchildren
          /\ changed \in Range(s.kchildren[child])

\* `widget_name != prev_widget_name` for an entity and its PreviousWidget
\* entity, both alive and both with a WidgetName
WentFromAToB(s, changed) ==
    /\ changed \in DOMAIN s.cloned
    /\ changed \in s.alive
    /\ s.cloned[changed].alive
    /\ changed \in DOMAIN s.widget_name
    /\ s.cloned[changed].name # NoName
    /\ s.widget_name[changed] # s.cloned[changed].name

PairsOf(parent, list) == [i \in 1..Len(list) |-> <<parent, list[i]>>]

RemoveAvsBChildren_WithSelf(s, t, ch, order_read, order_write) ==
    LET changed     == ch.entity
        descendants == DownIterAt(t, changed, TRUE)
        should_delete ==
            ~(order_read /\ HeldBySibling(s, t, changed, changed, ch.parent))
    IN IF /\ WentFromAToB(s, changed)
          /\ TreeParent(t, changed) # None
          /\ descendants # <<>>
          /\ should_delete
       THEN [s EXCEPT
               !.despawn_list = @ \o PairsOf(ch.parent, descendants),
               !.order_tree = IF order_write THEN TreeRemove(@, changed) ELSE @]
       ELSE s

\* context.rs:958-1040: the descendants of a child that went from one
\* widget type to another are put on the despawn list, unless the child is
\* held by another order-tree sibling
RemoveAvsBChildren(s, t, ch, order_read, order_write) ==
    LET changed     == ch.entity
        descendants == DownIterAt(t, changed, FALSE)
        should_delete ==
            ~(order_read /\ HeldBySibling(s, t, changed, changed, ch.parent))
    IN IF /\ WentFromAToB(s, changed)
          /\ TreeParent(t, changed) # None
          /\ descendants # <<>>
          /\ should_delete
       THEN [s EXCEPT
               !.despawn_list = @ \o PairsOf(ch.parent, descendants),
               !.order_tree = IF order_write THEN TreeRemove(@, changed) ELSE @]
       ELSE s

\* context.rs:1042-1055: the state entity and the PreviousWidget entity of
\* a child that went from A to B are despawned and unmapped
RemoveState(s, changed) ==
    IF WentFromAToB(s, changed)
    THEN [s EXCEPT !.widget_state = @ \ {changed},
                   !.cloned = Without(@, {changed}),
                   !.retyped = @ \cup {changed}]
    ELSE s

ApplyInserted_KeepsParent(s, ch) ==
    IF ch.entity \in s.alive
    THEN [s EXCEPT !.hierarchy = @ @@ (ch.entity :> ch.parent),
                   !.dirty = @ \cup {ch.entity}]
    ELSE s

\* context.rs:1057-1072: an Inserted child that exists gets the diffed
\* parent as its Parent, and Mounted and DirtyNode
ApplyInserted(s, ch) ==
    IF ch.entity \in s.alive
    THEN [s EXCEPT !.hierarchy = (ch.entity :> ch.parent) @@ @,
                   !.dirty = @ \cup {ch.entity}]
    ELSE s

\* context.rs:1073-1118: a Deleted child held by an order-tree sibling is
\* skipped (`continue 'outer`); any other loses its Parent, is put on the
\* despawn list and is removed from the order tree
ApplyDeleted(s, t, ch, order_read, order_write) ==
    LET changed == ch.entity IN
    IF order_read /\ HeldBySibling(s, t, changed, None, None)
    THEN [s EXCEPT !.suppressed = @ \cup {changed}]
    ELSE [s EXCEPT
            !.hierarchy = Without(@, {changed}),
            !.despawn_list = IF TreeParent(t, changed) # None
                             THEN Append(@, <<TreeParent(t, changed), changed>>)
                             ELSE @,
            !.order_tree = IF order_write THEN TreeRemove(@, changed) ELSE @]

ApplyChange_MovedAsDeleted(s, t, ch, order_read, order_write) ==
    LET s1 == RemoveAvsBChildren(s, t, ch, order_read, order_write)
        s2 == RemoveState(s1, ch.entity)
    IN IF ch.change = "Inserted" THEN ApplyInserted(s2, ch)
       ELSE IF ch.change \in {"Deleted", "Moved"}
            THEN ApplyDeleted(s2, t, ch, order_read, order_write)
            ELSE s2

\* one iteration of `'outer: for (.., changed_entity, parent, changes)`
ApplyChange(s, t, ch, order_read, order_write) ==
    LET s1 == RemoveAvsBChildren(s, t, ch, order_read, order_write)
        s2 == RemoveState(s1, ch.entity)
    IN IF ch.change = "Inserted" THEN ApplyInserted(s2, ch)
       ELSE IF ch.change = "Deleted"
            THEN ApplyDeleted(s2, t, ch, order_read, order_write)
            ELSE s2

RECURSIVE ApplyChanges(_, _, _, _, _, _)
ApplyChanges(s, t, changes, i, order_read, order_write) ==
    IF i > Len(changes) THEN s
    ELSE ApplyChanges(ApplyChange(s, t, changes[i], order_read, order_write),
                      t, changes, i + 1, order_read, order_write)

\* context.rs:1129-1145: the key of a despawned entity is forgotten
ClearKey(s, entity) ==
    IF entity \in DOMAIN s.unique_ids_parents
    THEN LET parent == s.unique_ids_parents[entity] IN
         IF parent \in DOMAIN s.unique_ids
            /\ \E k \in DOMAIN s.unique_ids[parent] : s.unique_ids[parent][k] = entity
         THEN LET key == CHOOSE k \in DOMAIN s.unique_ids[parent] :
                             s.unique_ids[parent][k] = entity
              IN [s EXCEPT !.unique_ids[parent] = Without(@, {key}),
                           !.unique_ids_parents = Without(@, {entity})]
         ELSE s
    ELSE s

\* `world.despawn(*entity)` of the PreviousWidget entity; the mapping stays
DespawnSnapshot(s, entity) ==
    IF entity \in DOMAIN s.cloned
    THEN [s EXCEPT !.cloned[entity].alive = FALSE]
    ELSE s

\* context.rs:1128-1173: one entry of the despawn list
DespawnOne(s, entity) ==
    LET s1 == ClearKey(s, entity)
        s2 == [s1 EXCEPT !.widget_state = @ \ {entity}]
    IN IF entity \in s.alive THEN DespawnSnapshot(Despawn(s2, entity), entity)
       ELSE s2

RECURSIVE DespawnAll(_, _)
DespawnAll(s, i) ==
    IF i > Len(s.despawn_list) THEN s
    ELSE DespawnAll(DespawnOne(s, s.despawn_list[i][2]), i + 1)

\* context.rs:1176-1199: KStyle, ComputedStyles and KChildren of the
\* rendered entity are copied to its PreviousWidget entity
CopyToSnapshot(s, entity) ==
    IF /\ entity \in DOMAIN s.cloned
       /\ s.cloned[entity].alive
       /\ entity \in s.alive
       /\ entity \in DOMAIN s.kchildren
    THEN [s EXCEPT !.cloned[entity].kchildren = s.kchildren[entity],
                   !.cloned[entity].has_kchildren = TRUE]
    ELSE s

\* the loop of context.rs:1201-1205 left out: only the rendered entity keeps
\* the DirtyNode update_widget gave it
MarkRendered_SelfOnly(s, entity, new_children) ==
    [s EXCEPT !.dirty = @ \cup ({entity} \cap s.alive)]

\* context.rs:1201-1205: the rendered entity and the children it rendered
\* get DirtyNode when they exist
MarkRendered(s, entity, new_children) ==
    [s EXCEPT !.dirty = @ \cup (({entity} \cup Range(new_children)) \cap s.alive)]

\* context.rs:930-1205: the diff of the rendered children against the tree
\* and everything update_widgets does with it
DiffApply(s, entity, new_children, cache_write, order_read, order_write) ==
    LET old     == ChildrenOf(tree, entity)
        changes == Diff(entity, old, new_children)
        s1 == ApplyChanges(s, tree, changes, 1, order_read, order_write)
        s2 == DespawnAll(s1, 1)
        s3 == CopyToSnapshot(s2, entity)
        s4 == MarkRendered(s3, entity, new_children)
    IN [after   |-> s4,
        changes |-> changes,
        tree    |-> TreeMergeChildren(tree, entity, new_children),
        rect    |-> IF cache_write THEN rect \cup Reported(changes, "Inserted")
                    ELSE rect]

\* ---------------------------------------------- update_widget on a state
\* context.rs:1309-1345: the PreviousWidget entity of a widget is spawned
\* when the widget has no mapping.  With a mapping whose entity is gone a
\* new one is spawned and mapped under the id of the old one, so the
\* mapping of the widget itself keeps naming the despawned entity.
EnsureSnapshot(s, entity) ==
    IF entity \in DOMAIN s.cloned THEN s
    ELSE [s EXCEPT !.cloned = (entity :> NewSnapshot) @@ @]

\* context.rs:1369-1403: after the update system has returned true the
\* clone systems copy props and state, and KStyle, ComputedStyles, KChildren
\* and WidgetName follow, when the mapped PreviousWidget entity exists
CloneToSnapshot(s, entity) ==
    IF entity \in DOMAIN s.cloned /\ s.cloned[entity].alive
    THEN [s EXCEPT
            !.cloned[entity].props = s.props[entity],
            !.cloned[entity].name = s.widget_name[entity],
            !.cloned[entity].kchildren =
                IF entity \in DOMAIN s.kchildren THEN s.kchildren[entity] ELSE @,
            !.cloned[entity].has_kchildren =
                @ \/ entity \in DOMAIN s.kchildren]
    ELSE s

\* `widget_context.index.insert(entity.0, 0)` after the render system
ResetIndex(s, entity) == [s EXCEPT !.indices = (entity :> 0) @@ @]

\* `commands.entity(entity.0).insert(DirtyNode)` at the end of update_widget
MarkSelf(s, entity) ==
    IF entity \in s.alive THEN [s EXCEPT !.dirty = @ \cup {entity}] ELSE s

\* ------------------------------------------------------- render functions
\* `commands.entity(e).insert(bundle)`: the widget bundle of a new child;
\* props are 1 or 2
InsertBundle(s, e, name) ==
    [s EXCEPT !.widget_name = (e :> name) @@ @,
              !.props = (e :> 1) @@ @]

\* the widget type of the bundles the host and the render functions insert
SpawnedName == "A"

\* the type a render function declares in the place of a child of type name
OtherName(name) == CHOOSE n \in TypeNames : n # name

\* the children of entity this widget spawned itself: a render that
\* declares them again has called spawn_widget once for each
SpawnedBy(s, entity, list) ==
    Cardinality({c \in Range(list) : TreeParent(s.order_tree, c) = entity})

Plan(kind, after, children) == [kind |-> kind, after |-> after, children |-> children]

\* What a render function of entity can do, as a set of outcomes: the state
\* it leaves and the children it has added to its widget context.
\*   same    it declares the children it had
\*   drop    it leaves one of them out
\*   swap    it declares them in the reverse order
\*   spawn   it declares one more, obtained from spawn_widget
\*   hand    it leaves the last one out and passes it to the first as a
\*           KChildren value
\*   process it adds the entities of its own KChildren (KChildren::process)
\*   retype  it declares, in the place of its first child, a widget of
\*           another type
\*   mutate  it changes its own props
\*   state   it creates its widget state (use_state)
\*   keyed   it declares a child under a key, obtained from the
\*           spawn_widget of its widget context
RenderPlans(s, entity, order_write) ==
    LET old  == ChildrenOf(tree, entity)
        at   == [s EXCEPT !.indices = (entity :> SpawnedBy(s, entity, old)) @@ @]
        sw   == spawn_widget(at, NoKey, entity, order_write)
    IN
    {Plan("same", s, old)}
    \cup (IF "drop" \in scene.plans
          THEN {Plan("drop", s, SelectSeq(old, LAMBDA c : c # d)) : d \in Range(old)}
          ELSE {})
    \cup (IF "swap" \in scene.plans /\ Len(old) >= 2
          THEN {Plan("swap", s, [i \in 1..Len(old) |-> old[Len(old) + 1 - i]])}
          ELSE {})
    \cup (IF "spawn" \in scene.plans /\ sw.entity # None /\ sw.entity \notin Range(old)
          THEN {Plan("spawn", InsertBundle(sw.after, sw.entity, SpawnedName),
                     Append(old, sw.entity))}
          ELSE {})
    \cup (IF "hand" \in scene.plans /\ Len(old) >= 2 /\ old[1] \in s.alive
          THEN {Plan("hand", [s EXCEPT !.kchildren = (old[1] :> <<old[Len(old)]>>) @@ @],
                     SubSeq(old, 1, Len(old) - 1))}
          ELSE {})
    \cup (IF "process" \in scene.plans /\ entity \in DOMAIN s.kchildren
             /\ Range(s.kchildren[entity]) \ Range(old) # {}
          THEN {Plan("process", s,
                     old \o SelectSeq(s.kchildren[entity], LAMBDA x : x \notin Range(old)))}
          ELSE {})
    \cup (IF "retype" \in scene.plans /\ old # <<>> /\ old[1] \in DOMAIN s.widget_name
          THEN {Plan("retype",
                     InsertBundle([Despawn(s, old[1]) EXCEPT !.alive = @ \cup {old[1]}],
                                  old[1], OtherName(s.widget_name[old[1]])),
                     old)}
          ELSE {})
    \cup (IF "mutate" \in scene.plans
          THEN {Plan("mutate", [s EXCEPT !.props[entity] = 3 - @], old)}
          ELSE {})
    \cup (IF "state" \in scene.plans /\ entity \notin s.widget_state
          THEN {Plan("state", [s EXCEPT !.widget_state = @ \cup {entity}], old)}
          ELSE {})
    \cup (IF "keyed" \in scene.plans
          THEN {Plan("keyed", InsertBundle(kw.after, kw.entity, SpawnedName),
                     IF kw.entity \in Range(old) THEN old
                     ELSE Append(old, kw.entity)) :
                  kw \in {r \in {widget_context_spawn_widget(s, key, entity, order_write) :
                                   key \in Keys} : r.entity # None}}
          ELSE {})

\* --------------------------------------------------- reconciliation scenes
\* a scene: the entity ids the World can hand out, what render functions
\* do, what the host does (it spawns children of the root, children of
\* those, keyed children, it despawns widgets), and the lock another holder
\* can have when the code tries to take it
ReconcileScene(universe, plans, host, contention) ==
    [universe |-> universe, plans |-> plans, host |-> host, contention |-> contention]

ReconcileScenes == {
    ReconcileScene(Widgets, {"drop", "swap", "spawn"}, {}, "none"),
    ReconcileScene(Widgets, {"hand", "process"}, {"child"}, "none"),
    ReconcileScene(Widgets, {"retype"}, {"child", "grandchild"}, "none"),
    ReconcileScene(Widgets, {"mutate"}, {"child"}, "none"),
    ReconcileScene(Widgets, {"state"}, {"child", "despawn"}, "none"),
    ReconcileScene(Widgets, {"drop"}, {"child", "keyed"}, "none"),
    ReconcileScene(FewWidgets, {"spawn"}, {}, "layout_cache"),
    ReconcileScene(Widgets, {"hand"}, {"child"}, "order_tree"),
    ReconcileScene(FewWidgets, {}, {"child", "despawn"}, "order_tree"),
    ReconcileScene(Widgets, {"keyed", "drop"}, {"despawn"}, "none")
}

\* the outcomes of `layout_cache.try_write()` and of `order_tree.try_read()`
\* / `order_tree.try_write()` in this scene
TryCache == IF scene.contention = "layout_cache" THEN BOOLEAN ELSE {TRUE}
TryOrder == IF scene.contention = "order_tree" THEN BOOLEAN ELSE {TRUE}

ReconcileInit ==
    /\ tree = EmptyTree
    /\ rect = {}
    /\ nodes = <<>>
    /\ extracted_quads = <<>>
    /\ pc = "build"
    /\ scene \in ReconcileScenes
    /\ alive = {}
    /\ widget_name = <<>>
    /\ systems = TypeNames
    /\ stack = <<>>
    /\ last = NoVisit
    /\ computed_styles = <<>>
    /\ dirty = {}
    /\ layout_cache = [rect |-> <<>>, geometry_changed |-> {}]
    /\ pass = 0
    /\ cascade = <<>>
    /\ order_tree = EmptyTree
    /\ indices = <<>>
    /\ unique_ids = <<>>
    /\ unique_ids_parents = <<>>
    /\ widget_state = {}
    /\ cloned_widget_entities = <<>>
    /\ kchildren = <<>>
    /\ hierarchy = <<>>
    /\ props = <<>>
    /\ applied = NoCall

\* the variables of the working state take the values of s
Commit(s) ==
    /\ alive' = s.alive
    /\ widget_name' = s.widget_name
    /\ kchildren' = s.kchildren
    /\ props' = s.props
    /\ hierarchy' = s.hierarchy
    /\ dirty' = s.dirty
    /\ order_tree' = s.order_tree
    /\ indices' = s.indices
    /\ widget_state' = s.widget_state
    /\ cloned_widget_entities' = s.cloned
    /\ unique_ids' = s.unique_ids
    /\ unique_ids_parents' = s.unique_ids_parents

reconcile_idle == <<nodes, extracted_quads, scene, systems, computed_styles,
                    layout_cache, pass, cascade>>

\* KayakRootContext::add_widget(parent, entity): `tree.add`, and `cache.add`
\* when `self.layout_cache.try_write()` succeeds
add_widget_cached(parent, entity, cache_write) ==
    [tree |-> TreeAdd(tree, entity, parent),
     rect |-> IF cache_write THEN rect \cup {entity} ELSE rect]

\* the host sets a widget up as the doc comment of spawn_widget shows:
\* spawn_widget, the bundle of the widget, add_widget
HostSpawn ==
    /\ pc = "build"
    /\ \E key \in (IF "keyed" \in scene.host THEN Keys ELSE {}) \cup {NoKey} :
       \E parent_id \in (IF tree.root_node = None THEN {None}
                         ELSE IF "grandchild" \in scene.host THEN TreeNodes(tree)
                         ELSE IF "child" \in scene.host THEN {tree.root_node}
                         ELSE {}) :
       \E cache_write \in TryCache, order_write \in TryOrder :
        LET sw    == spawn_widget(Working, key, parent_id, order_write)
            added == add_widget_cached(parent_id, sw.entity, cache_write)
        IN
        /\ sw.panicked \/ sw.entity # None
        /\ applied' = [op |-> "spawn_widget", key |-> key, parent_id |-> parent_id,
                       entity |-> sw.entity, created |-> sw.created,
                       recorded |-> sw.recorded, panicked |-> sw.panicked]
        /\ IF sw.panicked
           THEN /\ pc' = "panicked"
                /\ Commit(Working)
                /\ UNCHANGED <<tree, rect>>
           ELSE /\ pc' = pc
                /\ Commit(InsertBundle(sw.after, sw.entity, SpawnedName))
                /\ tree' = added.tree
                /\ rect' = added.rect
    /\ UNCHANGED <<stack, last>>
    /\ UNCHANGED reconcile_idle

\* a system of the host despawns a widget entity between two ticks
HostDespawn ==
    /\ pc = "setup"
    /\ "despawn" \in scene.host
    /\ \E e \in alive \cap TreeNodes(tree) :
        /\ Commit(Despawn(Working, e))
        /\ applied' = [op |-> "despawn", entity |-> e]
    /\ UNCHANGED <<tree, rect, pc, stack, last>>
    /\ UNCHANGED reconcile_idle

\* context.rs:1234-1282: one iteration of update_widgets whose entity no
\* longer exists; unless an order-tree sibling holds it in its KChildren it
\* is removed from the order tree, when that lock is free, and from the
\* tree, and its widget state is released
RemoveDangling ==
    /\ pc = "tick" /\ stack # <<>>
    /\ CurrentEntity \notin alive
    /\ \E order_read \in TryOrder, order_write \in TryOrder :
        LET entity    == CurrentEntity
            contained == order_read /\ HeldBySibling(Working, tree, entity, None, None)
            removed   == [Working EXCEPT
                            !.order_tree = IF order_write THEN TreeRemove(@, entity) ELSE @,
                            !.widget_state = @ \ {entity}]
        IN
        /\ Commit(IF contained THEN Working ELSE removed)
        /\ tree' = IF contained THEN tree ELSE TreeRemove(tree, entity)
        /\ applied' = [op |-> "remove_dangling", entity |-> entity,
                       contained |-> contained]
        /\ stack' = Unwind(Advance(stack))
    /\ UNCHANGED <<rect, pc, last>>
    /\ UNCHANGED reconcile_idle

\* one iteration whose update system returns false
UpdateUnchanged ==
    /\ pc = "tick" /\ stack # <<>>
    /\ CurrentEntity \in alive
    /\ CurrentEntity \in DOMAIN widget_name
    /\ LET entity == CurrentEntity IN
        /\ Commit(EnsureSnapshot(Working, entity))
        /\ applied' = [op |-> "update", entity |-> entity]
        /\ stack' = Unwind(Descend(stack, tree, entity, TRUE))
    /\ UNCHANGED <<tree, rect, pc, last>>
    /\ UNCHANGED reconcile_idle

\* one iteration whose update system returns true: the PreviousWidget
\* entity receives the clone, the render system runs, and when it returns
\* true its children are diffed against the tree and the diff is applied
RenderAndReconcile ==
    /\ pc = "tick" /\ stack # <<>>
    /\ CurrentEntity \in alive
    /\ CurrentEntity \in DOMAIN widget_name
    /\ \E should_update_children \in BOOLEAN :
       \E cache_write \in TryCache, order_read \in TryOrder, order_write \in TryOrder :
        LET entity == CurrentEntity
            cloned == CloneToSnapshot(EnsureSnapshot(Working, entity), entity)
        IN
        \E plan \in RenderPlans(cloned, entity, order_write) :
        LET rendered == MarkSelf(ResetIndex(plan.after, entity), entity)
            da == DiffApply(rendered, entity, plan.children,
                            cache_write, order_read, order_write)
        IN
        /\ ~should_update_children => plan.kind = "same"
        /\ IF should_update_children
           THEN /\ Commit(da.after)
                /\ tree' = da.tree
                /\ rect' = da.rect
                /\ applied' = [op |-> "diff_apply", entity |-> entity,
                               kind |-> plan.kind,
                               old |-> ChildrenOf(tree, entity),
                               new |-> plan.children,
                               changes |-> da.changes,
                               despawn_list |-> da.after.despawn_list,
                               suppressed |-> da.after.suppressed,
                               retyped |-> da.after.retyped]
           ELSE /\ Commit(rendered)
                /\ UNCHANGED <<tree, rect>>
                /\ applied' = [op |-> "render", entity |-> entity,
                               kind |-> plan.kind]
        /\ stack' = Unwind(Descend(stack, tree', entity, FALSE))
    /\ UNCHANGED <<pc, last>>
    /\ UNCHANGED reconcile_idle

ReconcileNext ==
    \/ HostSpawn
    \/ HostDespawn
    \/ StartTick
    \/ RemoveDangling
    \/ UpdateUnchanged
    \/ RenderAndReconcile
    \/ EndTick

ReconcileSpec == ReconcileInit /\ [][ReconcileNext]_vars

\* ------------------------------------------ reading the extraction record
Q == extracted_quads
Idx == 1..Len(Q)

Visited(e) == \E i \in Idx : Q[i].op = "call" /\ Q[i].entity = e
CallAt(e)  == CHOOSE i \in Idx : Q[i].op = "call" /\ Q[i].entity = e
RetAt(e)   == CHOOSE i \in Idx : Q[i].op = "return" /\ Q[i].entity = e

\* primitives pushed while node e or a node of its subtree is being extracted
PushesIn(e) == {i \in Idx : Q[i].op = "push" /\ CallAt(e) < i /\ i < RetAt(e)}
\* the primitive ComputedStyles::extract pushed for node e itself
OwnPushes(e) == {i \in Idx : Q[i].op = "push" /\ Q[i].entity = e /\ Q[i].src = "extract"}
\* composite primitives drawn for node e
DrawPushes(e) ==
    {i \in Idx : Q[i].op = "push" /\ Q[i].entity = e /\ Q[i].quad_type = "DrawOpacityLayer"}
MarkerPushes(e) ==
    {i \in Idx : Q[i].op = "push" /\ Q[i].entity = e /\ Q[i].quad_type = "OpacityLayer"}

Descendants(e) == {d \in TreeNodes(tree) : IsAncestor(tree, e, d)}
Subtree(e) == {e} \cup Descendants(e)

\* node e is reached by the walk with a Node component and a layout rect and
\* is not below the near-zero epsilon
Extractable(e) ==
    /\ Visited(e)
    /\ e \in DOMAIN nodes
    /\ e \in rect
    /\ nodes[e].opacity >= NearZeroOpacity

\* no primitive is pushed for e or a descendant and no descendant is visited
ContributesNothing(e) ==
    /\ \A i \in Idx : Q[i].op = "push" => Q[i].entity \notin Subtree(e)
    /\ \A d \in Descendants(e) : ~Visited(d)
    /\ Visited(e) => RetAt(e) = CallAt(e) + 1

\* a layer is available when recursion enters e
LayerAvailable(e) == Q[CallAt(e)].total + 1 < MAX_OPACITY_LAYERS

\* the children of p that come after e in p's child list
LaterSiblings(e) ==
    IF e \in DOMAIN tree.parents
    THEN LET cs == tree.children[tree.parents[e]]
         IN {cs[j] : j \in {k \in 1..Len(cs) : \E m \in 1..(k - 1) : cs[m] = e}}
    ELSE {}

\* -------------------------------------------------------------------- C1
\* C1: a node whose opacity is below the near-zero epsilon contributes no
\* primitive, neither do its descendants, and the number of opacity layers
\* in use is the same after the node as before it.
C1_InvisibleSkipped ==
    pc = "built" =>
        \A e \in DOMAIN nodes :
            nodes[e].opacity < NearZeroOpacity =>
                /\ ContributesNothing(e)
                /\ Visited(e) => Q[RetAt(e)].total = Q[CallAt(e)].total

C1_Witness ==
    /\ pc = "built"
    /\ \E e \in DOMAIN nodes :
        /\ nodes[e].opacity < NearZeroOpacity
        /\ Visited(e)
        /\ e \in rect
        /\ Q[CallAt(e)].total > 0
        /\ \E d \in Descendants(e) :
              d \in DOMAIN nodes /\ d \in rect /\ nodes[d].opacity >= NearZeroOpacity

\* -------------------------------------------------------------------- C2
\* C2 as stated: every extracted node with opacity strictly between 0 and 1
\* for which a layer is available contributes exactly one DrawOpacityLayer
\* primitive, carrying its opacity and its layer, after its subtree.
DrawsOneLayer(e) ==
    /\ Cardinality(DrawPushes(e)) = 1
    /\ Cardinality(MarkerPushes(e)) = 1
    /\ \A i \in DrawPushes(e), m \in MarkerPushes(e) :
        /\ Q[i].opacity = nodes[e].opacity
        /\ Q[m].opacity_layer = Q[CallAt(e)].total + 1
        /\ Q[i].opacity_layer = Q[m].opacity_layer
        /\ \A j \in PushesIn(e) : j <= i
        /\ \A d \in Descendants(e) : Visited(d) => RetAt(d) < i

C2_AsStated ==
    pc = "built" =>
        \A e \in DOMAIN nodes :
            (/\ Visited(e) /\ e \in rect
             /\ 0 < nodes[e].opacity /\ nodes[e].opacity < FullOpacity
             /\ LayerAvailable(e))
            => DrawsOneLayer(e)

\* C2 (amended): every extracted node with opacity at least the near-zero
\* epsilon and below 1 for which a layer is available contributes exactly
\* one DrawOpacityLayer primitive, carrying the node's opacity and the index
\* of the layer allocated for the node, emitted after every primitive of
\* the node's subtree.
C2_TranslucentDrawsOneLayer ==
    pc = "built" =>
        \A e \in DOMAIN nodes :
            (/\ Extractable(e)
             /\ nodes[e].opacity < FullOpacity
             /\ LayerAvailable(e))
            => DrawsOneLayer(e)

C2_Witness ==
    /\ pc = "built"
    /\ \E e \in DOMAIN nodes :
        /\ Extractable(e)
        /\ nodes[e].opacity < FullOpacity
        /\ LayerAvailable(e)
        /\ Q[CallAt(e)].total > 0
        /\ \E d \in Descendants(e) : OwnPushes(d) # {}
        /\ DrawPushes(e) # {}

\* -------------------------------------------------------------------- C3
\* C3: when a translucent node cannot get a layer because the maximum is
\* reached, the node and all its descendants contribute no primitive (the
\* node's own primitive included) and the walk goes on with the rest of the
\* tree.
C3_OverflowSkipsNode ==
    pc = "built" =>
        \A e \in DOMAIN nodes :
            (/\ Extractable(e)
             /\ nodes[e].opacity < FullOpacity
             /\ ~LayerAvailable(e))
            => /\ \A i \in Idx : Q[i].op = "push" => Q[i].entity \notin Subtree(e)
               /\ \A d \in Descendants(e) : ~Visited(d)
               /\ \A b \in LaterSiblings(e) : Visited(b)

\* -------------------------------------------------------------------- C4
\* the translucent extractable nodes on the path from the root to e, e included
TranslucentChain(e) ==
    {a \in Subtree(e) \cup {x \in TreeNodes(tree) : IsAncestor(tree, x, e)} :
        /\ (a = e \/ IsAncestor(tree, a, e))
        /\ a \in DOMAIN nodes /\ a \in rect
        /\ nodes[a].opacity >= NearZeroOpacity
        /\ nodes[a].opacity < FullOpacity}

\* every node of the tree is translucent and the tree is a single chain
IsTranslucentChainScene ==
    /\ tree.root_node # None
    /\ \A e \in TreeNodes(tree) :
        /\ TranslucentChain(e) = {e} \cup {x \in TreeNodes(tree) : IsAncestor(tree, x, e)}
        /\ Len(ChildrenOf(tree, e)) <= 1

\* C4: with the maximum set to N = MAX_OPACITY_LAYERS, each of the first N
\* nodes of a chain of nested translucent nodes obtains its own opacity
\* layer; only the (N+1)-th is skipped.
C4_ChainOfMaxLayers ==
    (pc = "built" /\ IsTranslucentChainScene) =>
        \A e \in TreeNodes(tree) :
            Cardinality(TranslucentChain(e)) <= MAX_OPACITY_LAYERS
                => Cardinality(MarkerPushes(e)) = 1

\* -------------------------------------------------------------------- C5
\* the ancestors of e that hold an opacity layer while e is extracted
OpenLayerHolders(e) ==
    {a \in TreeNodes(tree) : IsAncestor(tree, a, e) /\ MarkerPushes(a) # {}}

\* C5: the limit counts only concurrently open (nested) layers: a layer of
\* a subtree that has been fully extracted no longer counts, so a translucent
\* node gets a layer whenever the layers open around it leave room for one,
\* whatever its earlier sibling subtrees used.
C5_LimitCountsOpenLayers ==
    pc = "built" =>
        /\ \A e \in DOMAIN nodes :
            (/\ Extractable(e)
             /\ nodes[e].opacity < FullOpacity
             /\ Cardinality(OpenLayerHolders(e)) + 1 < MAX_OPACITY_LAYERS)
            => MarkerPushes(e) # {}
        /\ \A e \in TreeNodes(tree) : \A b \in LaterSiblings(e) :
            (Visited(e) /\ Visited(b)) => Q[CallAt(b)].total = Q[CallAt(e)].total

\* -------------------------------------------------------------------- C6
\* C6: a clip introduced by a node is in effect for its subtree only: every
\* later sibling is extracted with the clip the earlier sibling was entered
\* with (the parent's), never with a clip set by the earlier sibling.
C6_ClipRestoredOnReturn ==
    pc = "built" =>
        \A e \in TreeNodes(tree) : \A b \in LaterSiblings(e) :
            (Visited(e) /\ Visited(b)) => Q[CallAt(b)].clip = Q[CallAt(e)].clip

\* -------------------------------------------------------------------- C7
\* C7: for every extracted node with an explicit z value a new output layer
\* carrying that z is opened before the node's own primitive is pushed and
\* before any child is visited, whether or not the node has children.
C7_ZLayerOpenedFirst ==
    pc = "built" =>
        \A e \in DOMAIN nodes :
            (Extractable(e) /\ nodes[e].z # NoZ /\ OwnPushes(e) # {}) =>
                \E i \in Idx :
                    /\ Q[i].op = "new_layer" /\ Q[i].entity = e
                    /\ Q[i].z = nodes[e].z
                    /\ \A j \in OwnPushes(e) : i < j
                    /\ \A d \in Descendants(e) : Visited(d) => i < CallAt(d)

C9_WalkStopsAtUnchanged ==
    (pc \in {"tick", "panicked"} /\ last.via_unchanged) =>
        (~last.ran_update /\ ~last.ran_render /\ ~last.merged)

\* C9 (amended): when a widget's update predicate returns "unchanged", the
\* widget's own render function is not run in that visit and that visit
\* leaves the tree as it is, but the walk does not stop there: the visit
\* still calls update_widgets on the node's children, so their update
\* predicates are run.
C9_UnchangedSkipsOwnRenderOnly ==
    [][ (pc = "tick" /\ stack # <<>> /\ last'.ran_update /\ ~last'.rerender) =>
          /\ ~last'.ran_render
          /\ ~last'.merged
          /\ tree' = tree
          /\ alive' = alive
          /\ ChildrenOf(tree, CurrentEntity) # <<>> =>
                /\ stack' # <<>>
                /\ stack'[Len(stack')] =
                       Frame(ChildrenOf(tree, CurrentEntity), CurrentEntity, TRUE)
      ]_vars

C9_Witness ==
    /\ pc = "tick"
    /\ last.via # None
    /\ last.via_unchanged
    /\ last.ran_update
    /\ last.ran_render
    /\ last.merged

\* ------------------------------------------------------------------- C10
\* C10: when the walk dispatches a node whose widget type name has no
\* registered (update, render) pair, the lookup panics before the node's
\* update predicate or render function runs, and the tick does not continue.
C10_UnregisteredTypeIsFatal ==
    [][ /\ (/\ pc = "tick" /\ stack # <<>>
            /\ CurrentEntity \in alive
            /\ CurrentEntity \in DOMAIN widget_name
            /\ widget_name[CurrentEntity] \notin systems)
           => (/\ pc' = "panicked"
               /\ last'.entity = CurrentEntity
               /\ ~last'.ran_update /\ ~last'.ran_render
               /\ tree' = tree /\ stack' = stack)
        /\ pc = "panicked" => UNCHANGED vars
      ]_vars

C10_Witness ==
    /\ pc = "panicked"
    /\ last.panicked
    /\ last.via # None
    /\ stack # <<>>

\* ------------------------------------------------------------------- C11
\* C11: a failure to acquire the Tree or LayoutCache lock degrades to a
\* no-op and the tick continues; no lock failure aborts the tick.
C11_LockFailureNeverAborts ==
    last.lock_failed => pc # "panicked"

\* ------------------------------------------------------------------- C12
\* the guards held after the first k entries of a visit's guard record
GuardsHeld(g, k) ==
    {<<g[i].lock, g[i].mode>> :
        i \in {j \in 1..k :
                 /\ g[j].op = "acquire"
                 /\ \A m \in (j + 1)..k :
                       ~(g[m].op = "release" /\ g[m].lock = g[j].lock)}}

NoGuardWhileSystemRuns(g) ==
    \A k \in 1..Len(g) : g[k].op = "run" => GuardsHeld(g, k) = {}

TreeWriteOnlyIn(g, steps) ==
    \A k \in 1..Len(g) :
        <<"tree", "write">> \in GuardsHeld(g, k) => g[k].step \in steps

\* C12 as stated: while a widget's update or render system runs no guard on
\* Tree, OrderTree or LayoutCache is held, and the write guard on Tree is
\* held only during diff-apply.
C12_AsStated ==
    /\ NoGuardWhileSystemRuns(last.guards)
    /\ TreeWriteOnlyIn(last.guards, {"diff_apply"})

\* C12 (amended): while a widget's update or render system runs no guard on
\* Tree, OrderTree or LayoutCache is held; the write guard on Tree is held
\* only during diff-apply and while an entity that no longer exists is
\* removed from the tree.
C12_NoGuardWhileSystemRuns ==
    /\ NoGuardWhileSystemRuns(last.guards)
    /\ TreeWriteOnlyIn(last.guards, {"diff_apply", "remove_dangling"})

C12_Witness ==
    /\ pc = "tick"
    /\ last.ran_update /\ last.ran_render /\ last.merged
    /\ \E k \in 1..Len(last.guards) :
          /\ last.guards[k].op = "run" /\ last.guards[k].lock = "render"
          /\ \E m \in (k + 1)..Len(last.guards) :
                {<<"tree", "write">>, <<"layout_cache", "write">>}
                    \subseteq GuardsHeld(last.guards, m)

\* --------------------------------------------- reading the cascade record
\* the entities a run of calculate_nodes went through
Processed(run) == {run.entries[i].entity : i \in 1..Len(run.entries)}

EntryOf(run, e) == run.entries[CHOOSE i \in 1..Len(run.entries) : run.entries[i].entity = e]

\* a step that is a run of calculate_nodes which did not panic
CascadeStep == pc # "layout" /\ pc' = "layout"

\* the first calculate_nodes of a calculate_ui
FirstCascadeStep == CascadeStep /\ pass = 0

C13_Step ==
    /\ pass' <= 2
    /\ (pc = "layout" /\ pass = 2) => (pc' = "setup" /\ pass' = 0)
    /\ CascadeStep =>
          \A e \in Processed(cascade') : EntryOf(cascade', e).needs_layout => e \in dirty'
    /\ (FirstCascadeStep /\ cascade'.tree_ok) =>
          (dirty \cap TreeNodes(tree)) \subseteq Processed(cascade')

\* C13: a calculate_ui runs calculate_nodes and calculate_layout at most
\* twice and ends after the second layout whatever is still dirty; a node
\* that still needs layout keeps DirtyNode, and the first calculate_nodes of
\* the next calculate_ui that reads the tree goes through every dirty node
\* of the tree.
C13_BoundedConvergence == [][C13_Step]_vars

\* a text whose font is not loaded yet is gone through again in a later
\* calculate_ui, in which not every node is dirty
C13_Witness ==
    /\ pc = "layout" /\ pass = 1
    /\ cascade.dirty_before # TreeNodes(tree)
    /\ \E e \in Processed(cascade) :
          /\ EntryOf(cascade, e).text /\ ~EntryOf(cascade, e).measured
          /\ EntryOf(cascade, e).needs_layout
          /\ e \in dirty

\* a step that is a run of calculate_layout
LayoutStep == pc = "layout" /\ pc' # "layout"

\* the nodes whose rectangle a layout step changed
RectChanged ==
    {e \in TreeNodes(tree) : e \in DOMAIN layout_cache'.rect /\
        (e \notin DOMAIN layout_cache.rect \/ layout_cache.rect[e] # layout_cache'.rect[e])}

C14_Step ==
    LayoutStep => \A e \in RectChanged : Descendants(e) \subseteq dirty'

\* C14 as stated: after a layout pass every descendant, at any depth, of a
\* node whose rectangle differs from its previous value is marked dirty.
C14_DescendantsMarked == [][C14_Step]_vars

\* the rectangle calculate_nodes seeds the root with
SeededRect(styles) == Rect(0, 0, ValueOr0(styles.width), ValueOr0(styles.height))

\* C15 as stated: whenever the layout solver is about to run, the root's
\* rectangle in the layout cache is (0, 0, width, height) of the root's
\* resolved style.
C15_RootSeeded ==
    (pc = "layout" /\ tree.root_node # None) =>
        /\ tree.root_node \in DOMAIN nodes
        /\ tree.root_node \in DOMAIN layout_cache.rect
        /\ layout_cache.rect[tree.root_node]
               = SeededRect(nodes[tree.root_node].resolved_styles)

EntryIndex(run, e) == CHOOSE i \in 1..Len(run.entries) : run.entries[i].entity = e

C16_Step ==
    CascadeStep =>
        \A e \in Processed(cascade') :
            (e \in DOMAIN tree.parents /\ tree.parents[e] \in dirty) =>
                /\ tree.parents[e] \in Processed(cascade')
                /\ EntryIndex(cascade', tree.parents[e]) < EntryIndex(cascade', e)
                /\ EntryOf(cascade', e).parent_styles
                       = EntryOf(cascade', tree.parents[e]).resolved

\* C16 as stated: within one run of calculate_nodes, when a node and its
\* parent are both dirty, the parent is resolved before the child and the
\* child inherits from the style the parent got in this run.
C16_ParentResolvedFirst == [][C16_Step]_vars

\* the parent of a processed entity was resolved earlier in the same run
ResolvedEarlier(run, e) ==
    /\ tree.parents[e] \in Processed(run)
    /\ EntryIndex(run, tree.parents[e]) < EntryIndex(run, e)

RawStylesOf(e) == IF e \in DOMAIN computed_styles THEN computed_styles[e] ELSE default_styles

\* every property of e marked Inherit was filled from parent_styles
InheritFilled(run, e) ==
    RawStylesOf(e).color = "Inherit" =>
        EntryOf(run, e).resolved.color = EntryOf(run, e).parent_styles.color

C17_AsStated_Step ==
    CascadeStep =>
        \A e \in Processed(cascade') \cap DOMAIN tree.parents :
            /\ InheritFilled(cascade', e)
            /\ \/ /\ ResolvedEarlier(cascade', e)
                  /\ EntryOf(cascade', e).parent_styles
                         = EntryOf(cascade', tree.parents[e]).resolved
               \/ /\ tree.parents[e] \in DOMAIN nodes
                  /\ EntryOf(cascade', e).parent_styles
                         = nodes[tree.parents[e]].resolved_styles

\* C17 as stated: every dirty node with a parent fills its Inherit
\* properties from the parent's resolved style, never from the parent's raw
\* ComputedStyles.
C17_AsStated == [][C17_AsStated_Step]_vars

\* the render kind of a is Empty or Layout; a widget without ComputedStyles
\* has no render command of its own and counts as Empty
EmptyOrLayoutKind(a) ==
    a \notin DOMAIN computed_styles \/
    ResolveRenderCommand(computed_styles[a]) \in {"Empty", "Layout"}

StrictAncestors(e) == {a \in TreeNodes(tree) : IsAncestor(tree, a, e)}

ZeroArea(max_size) == max_size[1] * max_size[2] = 0

C19_Step ==
    CascadeStep =>
        \A e \in Processed(cascade') :
            LET entry == EntryOf(cascade', e) IN
            (/\ entry.text /\ entry.measured
             /\ \/ entry.parent_id \in layout_cache.geometry_changed
                \/ ZeroArea(entry.max_size)
                \/ entry.parent_id \in dirty)
            => e \in dirty'

FontOf(styles) ==
    IF styles.font \in {"Default", "Inherit"} THEN DEFAULT_FONT ELSE styles.font

\* a step that is a run of calculate_nodes, to its end or to a panic
CascadeAttempt == pc # "layout" /\ pc' \in {"layout", "panicked"}

C20_Step ==
    CascadeAttempt =>
        \A e \in Processed(cascade') :
            LET entry == EntryOf(cascade', e) IN
            (entry.text /\ FontOf(entry.resolved) \notin LoadedFonts) =>
                /\ ~entry.measured
                /\ e \in dirty'
                /\ pc' # "panicked"

\* C20 as stated: a text whose font is missing or not loaded yet is not
\* measured in this run of calculate_nodes, keeps DirtyNode, and the
\* calculate_ui goes on without aborting.
C20_UnresolvedFontRetried == [][C20_Step]_vars

\* ------------------------------------------------ reading a host call
\* the last thing done was a call spawn_widget(Some(key), Some(parent))
KeyedCall ==
    /\ applied.op = "spawn_widget"
    /\ applied.key # NoKey
    /\ applied.parent_id # None

\* C27: a call of spawn_widget with a key k and a parent P returns an
\* entity that exists and is recorded as k under P: an entity created by
\* this call when (P, k) was not recorded before it, the recorded entity
\* otherwise; the call does not fail.
C27_KeyedIdentity ==
    KeyedCall =>
        /\ ~applied.panicked
        /\ applied.entity \in alive
        /\ applied.parent_id \in DOMAIN unique_ids
        /\ applied.key \in DOMAIN unique_ids[applied.parent_id]
        /\ unique_ids[applied.parent_id][applied.key] = applied.entity
        /\ applied.created = ~applied.recorded

\* ------------------------------------------------ reading a diff-apply
\* this step is an iteration of update_widgets that diffed the children a
\* render produced and applied the diff
DiffApplyStep ==
    /\ pc = "tick"
    /\ stack' # stack
    /\ applied'.op = "diff_apply"

\* the entities of a despawn list
Despawned(call) == {call.despawn_list[i][2] : i \in 1..Len(call.despawn_list)}

\* the strict descendants in the tree t of the entities of set
DescendantsOf(t, set) == {d \in TreeNodes(t) : \E a \in set : IsAncestor(t, a, d)}

\* every entry of the edit script of call has the given change
AllReported(call, change) ==
    \A i \in 1..Len(call.changes) : call.changes[i].change = change

\* C28 as stated: a diff of a node's children against an identical rendered
\* list reports Same for every slot, and applying it leaves the tree as it
\* is and despawns nothing.
C28_AsStated ==
    [][DiffApplyStep /\ applied'.new = applied'.old
        => /\ AllReported(applied', "Same")
           /\ tree' = tree
           /\ Despawned(applied') = {}]_vars

\* the widgets whose snapshot entity a step despawns or unmaps
SnapshotsLost ==
    {e \in DOMAIN cloned_widget_entities :
        \/ e \notin DOMAIN cloned_widget_entities'
        \/ cloned_widget_entities[e].alive /\ ~cloned_widget_entities'[e].alive}

\* C28, amended: a diff of a node's children against an identical rendered
\* list reports Same for every slot and applying it leaves the tree as it
\* is; the only entities it despawns belong to a child whose widget type is
\* no longer the type its snapshot recorded: descendants of that child, its
\* widget state and its snapshot (and those of the despawned descendants).
C28_IdenticalListIsSame ==
    [][DiffApplyStep /\ applied'.new = applied'.old
        => /\ AllReported(applied', "Same")
           /\ tree' = tree
           /\ Despawned(applied') \subseteq DescendantsOf(tree, applied'.retyped)
           /\ alive \ alive' \subseteq Despawned(applied')
           /\ widget_state \ widget_state' \subseteq
                  applied'.retyped \cup Despawned(applied')
           /\ SnapshotsLost \subseteq applied'.retyped \cup Despawned(applied')]_vars

\* an identical list was diffed and applied, with a child that changed
\* its type and lost a descendant
C28_Witness ==
    /\ applied.op = "diff_apply"
    /\ applied.new = applied.old
    /\ applied.old # <<>>
    /\ applied.retyped # {}
    /\ Despawned(applied) # {}

\* the children at two slots of the old list have exchanged their slots
Swapped(call, i, j) ==
    /\ i \in 1..Len(call.old) /\ j \in 1..Len(call.old)
    /\ i # j
    /\ Len(call.new) = Len(call.old)
    /\ call.new[i] = call.old[j]
    /\ call.new[j] = call.old[i]

ChangeReported(call, e) ==
    {call.changes[k].change : k \in {n \in 1..Len(call.changes) : call.changes[n].entity = e}}

C30_CrossParentNeverMoved ==
    [][DiffApplyStep =>
        \A k \in 1..Len(applied'.changes) :
            LET ch == applied'.changes[k] IN
            /\ ch.parent = applied'.entity
            /\ ch.entity \notin Range(applied'.old) => ch.change = "Inserted"
            /\ ch.entity \notin Range(applied'.new) => ch.change = "Deleted"
            /\ ch.change = "Moved" =>
                  ch.entity \in Range(applied'.old) \cap Range(applied'.new)
            /\ (ch.change = "Inserted" /\ ch.entity \in alive') =>
                  /\ TreeParent(tree', ch.entity) = applied'.entity
                  /\ hierarchy'[ch.entity] = applied'.entity]_vars

\* a child that another parent had handed over has been inserted under the
\* parent that holds it in its KChildren
C30_Witness ==
    /\ applied.op = "diff_apply"
    /\ applied.kind = "process"
    /\ \E k \in 1..Len(applied.changes) :
          LET ch == applied.changes[k] IN
          /\ ch.change = "Inserted"
          /\ ch.entity \in alive
          /\ TreeParent(tree, applied.entity) # None
          /\ hierarchy[ch.entity] = applied.entity

\* some live entity has e in its KChildren after the step
HeldAfter(e) ==
    \E holder \in alive' \cap DOMAIN kchildren' : e \in Range(kchildren'[holder])

\* C22: when diff-apply handles a child reported Deleted that no live entity
\* holds as a value of its KChildren, the child is absent from the tree and
\* from the order tree afterwards, and neither the child nor any node of its
\* subtree exists any more.
C22_OrphanReclaimed ==
    [][DiffApplyStep =>
        \A k \in 1..Len(applied'.changes) :
            LET ch == applied'.changes[k] IN
            (ch.change = "Deleted" /\ ~HeldAfter(ch.entity)) =>
                /\ ch.entity \notin TreeNodes(tree')
                /\ ch.entity \notin TreeNodes(order_tree')
                /\ ({ch.entity} \cup DescendantsOf(tree, {ch.entity})) \cap alive' = {}]_vars

\* C23: at the end of every tick the layout cache has a rect entry, and
\* cloned_widget_entities a snapshot mapping, only for nodes of the tree.
C23_Lockstep ==
    pc = "setup" =>
        /\ rect \subseteq TreeNodes(tree)
        /\ DOMAIN cloned_widget_entities \subseteq TreeNodes(tree)

\* after the render of this step, a live entity in the subtree of a live
\* sibling of e under parent holds e as a value of its KChildren
HeldInSiblingSubtree(parent, e) ==
    \E sibling \in (Range(ChildrenOf(tree, parent)) \cap alive') \ {e} :
    \E holder \in Range(DownIterAt(tree, sibling, TRUE)) \cap alive' :
        /\ holder \in DOMAIN kchildren'
        /\ e \in Range(kchildren'[holder])

\* C21: when diff-apply handles a child reported Deleted that a node in the
\* subtree of a live sibling holds in its KChildren, the child is not
\* despawned, stays in the order tree and keeps its rect entry.
C21_OrphanSuppressed ==
    [][DiffApplyStep =>
        \A k \in 1..Len(applied'.changes) :
            LET ch == applied'.changes[k] IN
            (ch.change = "Deleted" /\ HeldInSiblingSubtree(ch.parent, ch.entity)) =>
                /\ ch.entity \in alive => ch.entity \in alive'
                /\ ch.entity \in TreeNodes(order_tree) =>
                      ch.entity \in TreeNodes(order_tree')
                /\ ch.entity \in rect => ch.entity \in rect']_vars

\* this step is a host call of spawn_widget and add_widget that returned
AddWidgetStep ==
    /\ pc = "build"
    /\ applied' # applied
    /\ applied'.op = "spawn_widget"
    /\ ~applied'.panicked

\* C24: a node added to the tree by add_widget has a rect entry in the
\* layout cache when add_widget returns; a child that diff-apply handles as
\* Inserted has a rect entry afterwards, carries DirtyNode and has the
\* rendered widget as its Parent.
C24_InsertedIsCached ==
    [][/\ AddWidgetStep => applied'.entity \in rect'
       /\ DiffApplyStep =>
            \A k \in 1..Len(applied'.changes) :
                LET ch == applied'.changes[k] IN
                (ch.change = "Inserted" /\ ch.entity \in alive') =>
                    /\ ch.entity \in rect'
                    /\ ch.entity \in dirty'
                    /\ ch.entity \in DOMAIN hierarchy'
                    /\ hierarchy'[ch.entity] = applied'.entity]_vars

\* this step is the iteration of update_widgets for an entity that no
\* longer exists
DanglingStep ==
    /\ pc = "tick"
    /\ stack' # stack
    /\ applied'.op = "remove_dangling"

\* some live entity has e in its KChildren
Held(e) ==
    \E holder \in alive \cap DOMAIN kchildren : e \in Range(kchildren[holder])

\* C26: when the walk reaches a node whose entity no longer exists and that
\* no live entity holds in its KChildren, the node is removed from the tree
\* and from the order tree, its widget state is released, nothing panics
\* and the walk goes on with the next entity.
C26_StaleReferenceRemoved ==
    [][(DanglingStep /\ ~Held(applied'.entity)) =>
        /\ applied'.entity \notin TreeNodes(tree')
        /\ applied'.entity \notin TreeNodes(order_tree')
        /\ applied'.entity \notin widget_state'
        /\ pc' = "tick"
        /\ stack' = Unwind(Advance(stack))]_vars

\* update_widgets has returned and the last widget it rendered is `applied.entity`
RenderedLastThisTick ==
    /\ pc = "tick"
    /\ pc' = "setup"
    /\ applied.op \in {"diff_apply", "render"}
    /\ applied.entity \in alive
    /\ applied.entity \in DOMAIN cloned_widget_entities
    /\ cloned_widget_entities[applied.entity].alive

\* C25: at the end of a tick the shadow snapshot of a widget whose render
\* function ran in the tick holds the props and the children the widget has
\* then, changes made by the render function included.
C25_SnapshotFresh ==
    [][RenderedLastThisTick =>
        LET e == applied.entity IN
        /\ cloned_widget_entities'[e].props = props'[e]
        /\ e \in DOMAIN kchildren' =>
            cloned_widget_entities'[e].kchildren = kchildren'[e]]_vars

\* -------------------------------------------------------------------- C32
\* the opacity layers allocated while node e was being extracted: the layer
\* of e itself and the layers nested inside it
LayersWithin(e) == (Q[CallAt(e)].total + 1)..Q[RetAt(e)].total

\* C32: every primitive of the subtree of a translucent node that got a
\* layer, the node's own primitive and the primitives of its descendants, is
\* tagged with the layer allocated for the node or with a layer nested
\* inside it, never with the layer the node was handed by its parent.
C32_TranslucentRedirection ==
    pc = "built" =>
        \A e \in DOMAIN nodes :
            (/\ Extractable(e)
             /\ nodes[e].opacity < FullOpacity
             /\ LayerAvailable(e))
            => \A i \in Idx :
                (/\ Q[i].op = "push"
                 /\ Q[i].src = "extract"
                 /\ Q[i].entity \in Subtree(e))
                => Q[i].opacity_layer \in LayersWithin(e)

\* -------------------------------------------------------------------- C36
\* calls of ExtractedQuads made between the entry to and the return from the
\* extraction of node e
CallsWithin(e, op) == {i \in Idx : Q[i].op = op /\ CallAt(e) < i /\ i < RetAt(e)}

\* C36: for every node the extraction reaches, on every return path, as
\* many new_layer calls as pop_stack calls are made between entry and
\* return, so the depth of the output-layer stack is the same after the node
\* as before it.
C36_BalancedLayerStack ==
    pc = "built" =>
        \A e \in TreeNodes(tree) :
            Visited(e) =>
                Cardinality(CallsWithin(e, "new_layer"))
                    = Cardinality(CallsWithin(e, "pop_stack"))

\* -------------------------------------------------------------------- C37
\* the OpacityLayer marker primitives and the DrawOpacityLayer primitives of
\* the frame
Markers == {i \in Idx : Q[i].op = "push" /\ Q[i].quad_type = "OpacityLayer"}
Draws   == {i \in Idx : Q[i].op = "push" /\ Q[i].quad_type = "DrawOpacityLayer"}
\* the DrawOpacityLayer primitives that carry the layer of marker m
DrawsOf(m) == {d \in Draws : Q[d].opacity_layer = Q[m].opacity_layer}

\* C37: within one frame the opacity layer indices are handed out in
\* strictly increasing order starting at 1, each to one node; each
\* OpacityLayer marker is followed by exactly one DrawOpacityLayer primitive
\* with its index, emitted for the same node; and the marker/draw pairs of
\* two nodes are nested when one node is a descendant of the other and
\* disjoint otherwise.
C37_LayerBracketing ==
    pc = "built" =>
        /\ {Q[m].opacity_layer : m \in Markers} = 1..Cardinality(Markers)
        /\ \A m1, m2 \in Markers :
            m1 < m2 => /\ Q[m1].opacity_layer < Q[m2].opacity_layer
                       /\ Q[m1].entity # Q[m2].entity
        /\ \A d \in Draws : \E m \in Markers : d \in DrawsOf(m)
        /\ \A m \in Markers :
            /\ Cardinality(DrawsOf(m)) = 1
            /\ \A d \in DrawsOf(m) : m < d /\ Q[d].entity = Q[m].entity
        /\ \A m1, m2 \in Markers : \A d1 \in DrawsOf(m1), d2 \in DrawsOf(m2) :
            m1 < m2 =>
                IF IsAncestor(tree, Q[m1].entity, Q[m2].entity)
                THEN d2 < d1
                ELSE d1 < m2

C37_Witness ==
    /\ pc = "built"
    /\ \E m1, m2 \in Markers :
        /\ m1 < m2
        /\ IsAncestor(tree, Q[m1].entity, Q[m2].entity)
        /\ Q[m1].opacity_layer = 1
        /\ Q[m2].opacity_layer = 2
        /\ DrawsOf(m1) # {} /\ DrawsOf(m2) # {}

\* -------------------------------------------------------------------- C35
\* the visit recorded in `last` was made by the call of update_widgets_sys,
\* ran the update predicate of its widget, and the widget has a parent whose
\* own visit has dispatched it already in this tick: the parent precedes it
\* in the list of update_widgets_sys, and its visit called update_widgets on
\* its children
RanAgain(run) ==
    /\ pc = "tick"
    /\ run
    /\ last.via = None
    /\ last.entity \in DOMAIN tree.parents
    /\ tree.parents[last.entity] \in alive
    /\ tree.parents[last.entity] \in DOMAIN widget_name

\* C35: in one run of update_widgets_sys the update predicate of a widget is
\* run at most once and its render function is run at most once.
C35_SingleVisitPerTick ==
    /\ ~RanAgain(last.ran_update)
    /\ ~RanAgain(last.ran_render)

\* -------------------------------------------------------------------- C31
\* this step is one iteration of update_widgets
VisitStep == pc = "tick" /\ stack # <<>> /\ stack' # stack

\* the iteration of update_widgets for entity p is over when the current
\* iteration begins: the current call was made by the visit of p, after its
\* update, render and merge, or the current call is the one of
\* update_widgets_sys and p comes earlier in its list
Resolved(p) ==
    \/ Top.via = p
    \/ /\ Top.via = None
       /\ \E j \in 1..(Top.i - 1) : Top.widgets[j] = p

\* C31: when the update predicate of a widget is run, the visit of its
\* parent in the tree is over, with its update, its render and the
\* diff-apply and merge of its children; and the call a visit makes on the
\* children takes the children from the tree as the merge left it, after
\* everything else the visit does.
C31_PreOrderResolution ==
    [][(VisitStep /\ last'.ran_update) =>
        /\ last'.entity = CurrentEntity
        /\ CurrentEntity \in DOMAIN tree.parents => Resolved(tree.parents[CurrentEntity])
        /\ ChildrenOf(tree', CurrentEntity) # <<>> =>
            /\ stack' # <<>>
            /\ stack'[Len(stack')] =
                   Frame(ChildrenOf(tree', CurrentEntity), CurrentEntity, ~last'.rerender)]_vars

\* a child that the render of its parent has just added has its update
\* predicate run in the call made by the parent's visit
C31_Witness ==
    /\ pc = "tick"
    /\ stack # <<>>
    /\ last.ran_update
    /\ last.via # None
    /\ last.entity \in DOMAIN tree.parents
    /\ last.via = tree.parents[last.entity]
    /\ ~last.via_unchanged
    /\ last.entity \notin Range(stack[1].widgets)

\* -------------------------------------------------------------------- C38
\* the k-th entry of the guard record g requests a lock in the order the
\* scheduler keeps: the Tree lock is requested while no write guard on Tree
\* and no guard on OrderTree or LayoutCache is held; OrderTree or
\* LayoutCache is requested, next to guards already held, only with a
\* try-lock and only next to guards on Tree
RequestInOrder(g, k) ==
    LET held == GuardsHeld(g, k - 1) IN
    IF g[k].lock = "tree"
    THEN \A h \in held : h = <<"tree", "read">>
    ELSE held # {} => /\ g[k].try
                      /\ \A h \in held : h[1] = "tree"

\* C38: in every iteration of update_widgets the Tree lock is never
\* requested while a write guard on Tree or a guard on OrderTree or
\* LayoutCache is held; when two of the three locks are held together the
\* Tree lock was taken first and the second one with a try-lock; and no
\* guard is held while a widget system runs, so a request widget logic makes
\* cannot wait for the scheduler.
C38_LockOrdering ==
    /\ \A k \in 1..Len(last.guards) :
        last.guards[k].op = "acquire" => RequestInOrder(last.guards, k)
    /\ \A k \in 1..Len(last.guards) :
        last.guards[k].op = "run" => GuardsHeld(last.guards, k) = {}

C38_Witness ==
    /\ pc = "tick"
    /\ last.ran_render
    /\ \E k \in 1..Len(last.guards) :
        /\ last.guards[k].op = "acquire"
        /\ last.guards[k].lock = "order_tree"
        /\ last.guards[k].try
        /\ <<"tree", "write">> \in GuardsHeld(last.guards, k - 1)

\* -------------------------------------------------------------------- C39
\* C39: after a run of calculate_nodes every node it processed carries
\* DirtyNode exactly when create_primitive found that it needs another
\* layout pass, and a processed node that is not a text node does not carry
\* it.
C39_DirtyMarkCleared ==
    [][CascadeStep =>
        \A e \in Processed(cascade') :
            LET entry == EntryOf(cascade', e) IN
            /\ e \in dirty' <=> entry.needs_layout
            /\ ~entry.text => e \notin dirty']_vars

\* ------------------------------------------------ C33 render implies dirty
\* one iteration of update_widgets in which the render system of a widget ran
RenderStep ==
    /\ pc = "tick"
    /\ stack' # stack
    /\ applied'.op \in {"diff_apply", "render"}

\* the entities the render of call added to its widget context
RenderedChildren(call) ==
    IF call.op = "diff_apply" THEN Range(call.new) ELSE {}

\* C33 as stated: a widget whose render function ran carries the dirty
\* mark, and when the render asked for a children update every node it
\* rendered as a child carries it too
C33_AsStated ==
    [][RenderStep =>
        ({applied'.entity} \cup RenderedChildren(applied')) \subseteq dirty']_vars

\* C33: a widget whose render function ran carries the dirty mark after its
\* visit, so does every child it rendered whose entity exists when the
\* render asked for a children update, and no later step of the tick takes
\* the mark from an entity that still exists: they carry it when the tick
\* ends and the cascade phase begins
C33_RenderImpliesDirty ==
    [][/\ RenderStep =>
            (({applied'.entity} \cup RenderedChildren(applied')) \cap alive')
                \subseteq dirty'
       /\ pc = "tick" => (dirty \cap alive') \subseteq dirty']_vars

\* a render has declared one more child, the children were updated, and the
\* widget and its children carry the mark
C33_Witness ==
    /\ pc = "tick"
    /\ applied.op = "diff_apply"
    /\ applied.kind = "spawn"
    /\ Len(applied.new) > Len(applied.old)
    /\ applied.entity \in dirty
    /\ Range(applied.new) \subseteq (alive \cap dirty)

\* ------------------------------------ C34 positional identity of unkeyed children
\* the most calls of spawn_widget a render pass makes here
MaxCalls == 2

\* a render pass of parent that makes n calls spawn_widget(commands, None,
\* Some(parent)) in a row from the working state s: the entities the calls
\* return, the state they leave, and whether each call returned the child
\* of the order tree at its position or, where there was none, an entity no
\* part of the program held, appended to the order-tree children of parent
RECURSIVE UnkeyedPass(_, _, _, _)
UnkeyedPass(s, parent, n, order_write) ==
    IF n = 0 THEN [entities |-> <<>>, after |-> s, positional |-> TRUE]
    ELSE LET prev     == UnkeyedPass(s, parent, n - 1, order_write)
             before   == prev.after
             children == ChildrenOf(before.order_tree, parent)
             sw       == spawn_widget(before, NoKey, parent, order_write)
         IN [entities |-> Append(prev.entities, sw.entity),
             after |-> sw.after,
             positional |->
                /\ prev.positional
                /\ IF n <= Len(children)
                   THEN sw.entity = children[n]
                   ELSE /\ sw.entity \notin Known(before)
                        /\ ChildrenOf(sw.after.order_tree, parent)
                              = Append(children, sw.entity)]

\* the positional index of parent is where a render pass starts
IndexAtStart(parent) == parent \notin DOMAIN indices \/ indices[parent] = 0

\* the World has an id left for every call of the pass
Feasible(run) == \A i \in 1..Len(run.entities) : run.entities[i] # None

\* C34: within one render pass of parent P whose positional index starts at
\* 0, the i-th unkeyed spawn_widget call under P returns the i-th child of P
\* in the order tree when it exists and otherwise a fresh entity that is
\* appended to P's order-tree children; a second pass of P that makes the
\* same number of unkeyed calls obtains the same entities in the same order
C34_PositionalIdentity ==
    pc \in {"tick", "setup"} =>
    \A parent \in alive : \A n \in 1..MaxCalls : \A order_write \in TryOrder :
        LET first  == UnkeyedPass(Working, parent, n, order_write)
            second == UnkeyedPass(ResetIndex(first.after, parent), parent, n,
                                  order_write)
        IN (IndexAtStart(parent) /\ Feasible(first)) =>
            /\ first.positional
            /\ second.entities = first.entities

\* ------------------------------------------------ C40 key table consistency
\* the entities some key under parent maps to in unique_ids
KeyedUnder(parent) ==
    IF parent \in DOMAIN unique_ids
    THEN {unique_ids[parent][k] : k \in DOMAIN unique_ids[parent]}
    ELSE {}

\* the entities some key of unique_ids maps to
KeyedEntities == UNION {KeyedUnder(p) : p \in DOMAIN unique_ids}

\* unique_ids_parents maps e to p exactly when a key under p maps to e
ParentsMatchKeys ==
    \A e \in DOMAIN unique_ids_parents \cup KeyedEntities :
    \A p \in DOMAIN unique_ids
              \cup {unique_ids_parents[c] : c \in DOMAIN unique_ids_parents} :
        (e \in DOMAIN unique_ids_parents /\ unique_ids_parents[e] = p)
        <=> e \in KeyedUnder(p)

\* the entities the step that made call removed: the despawn list of a
\* diff-apply, the dangling entity of a removal
RemovedBy(call) ==
    IF call.op = "diff_apply" THEN Despawned(call)
    ELSE IF call.op = "remove_dangling" /\ ~call.contained THEN {call.entity}
    ELSE {}

\* one iteration of update_widgets that applied a diff or removed a
\* dangling entity
KeyTableStep ==
    /\ pc = "tick"
    /\ stack' # stack
    /\ applied'.op \in {"diff_apply", "remove_dangling"}

\* C40: after every diff-apply and every dangling-entity removal no key of
\* unique_ids maps to an entity the step removed and that no longer
\* exists, and unique_ids_parents maps an entity e to parent p exactly when
\* some key under p in unique_ids maps to e
C40_KeyTableConsistent ==
    [][KeyTableStep =>
        /\ (KeyedEntities' \cap RemovedBy(applied')) \subseteq alive'
        /\ ParentsMatchKeys']_vars

====
